---- MODULE Spec2Model ----
(***************************************************************************)
(* A model of the SONIA swap pricing engine: zero curves (src/src/curves.py),*)
(* schedules and day counts (src/src/schedule.py, src/src/daycount.py), the  *)
(* swap pricer (src/src/swap_pricing.py) and the risk engine                 *)
(* (src/src/pricing_engine.py).                                              *)
(*                                                                           *)
(* Floats are modelled as decimal fixed-point numbers with six fractional    *)
(* digits (the integer n stands for n / Scale), every operation rounded to   *)
(* the nearest representable value, and one extra value, NaN, that stands    *)
(* for every non-finite float (nan, +inf, -inf) and propagates through       *)
(* arithmetic as it does in numpy.                                           *)
(***************************************************************************)
EXTENDS Integers, Sequences, FiniteSets, TLC

\* ------------------------------------------------------------------------
\* Fixed-point arithmetic standing for float64
\* ------------------------------------------------------------------------

Kilo == 10^3

Scale == Kilo * Kilo

\* Every non-finite float: numpy's nan and +/-inf.
NaN == -(2^30)

\* Comparison slack for results reached along different rounding paths.
Tol == Scale \div 10000

IsNum(x) == x # NaN

Abs(x) == IF x < 0 THEN -x ELSE x

Sign(x) == IF x < 0 THEN -1 ELSE 1

Fx(units, thousandths) == units * Scale + thousandths * Kilo

FxAdd(a, b) == IF a = NaN \/ b = NaN THEN NaN ELSE a + b

FxSub(a, b) == IF a = NaN \/ b = NaN THEN NaN ELSE a - b

FxNeg(a) == IF a = NaN THEN NaN ELSE -a

\* a * b / Scale for a, b >= 0, rounded to nearest, without leaving 32 bits.
MulNat(a, b) ==
    LET ah == a \div Kilo
        al == a % Kilo
        bh == b \div Kilo
        bl == b % Kilo
    IN  ah * bh + (ah * bl + al * bh + ((al * bl + Kilo \div 2) \div Kilo) + Kilo \div 2) \div Kilo

FxMul(a, b) ==
    IF a = NaN \/ b = NaN THEN NaN
    ELSE Sign(a) * Sign(b) * MulNat(Abs(a), Abs(b))

RECURSIVE DivFrac(_, _, _, _)
DivFrac(r, b, n, acc) ==
    IF n = 0 THEN acc + (IF 2 * r >= b THEN 1 ELSE 0)
    ELSE DivFrac((r * 10) % b, b, n - 1, acc * 10 + (r * 10) \div b)

\* a * Scale / b for a >= 0, b > 0, rounded to nearest, by long division.
DivNat(a, b) == DivFrac(a % b, b, 6, a \div b)

\* Float division; a zero divisor gives a non-finite value (numpy) .
FxDiv(a, b) ==
    IF a = NaN \/ b = NaN \/ b = 0 THEN NaN
    ELSE Sign(a) * Sign(b) * DivNat(Abs(a), Abs(b))

\* An integer divided into a fixed-point number (term / n of a series).
DivInt(a, n) == Sign(a) * ((Abs(a) + n \div 2) \div n)

RECURSIVE ExpSeries(_, _, _, _)
ExpSeries(x, term, n, acc) ==
    IF term = 0 \/ n > 40 THEN acc
    ELSE LET nt == DivInt(FxMul(term, x), n)
         IN  ExpSeries(x, nt, n + 1, acc + nt)

\* np.exp: the Taylor series on |x|, inverted for a negative argument.
FxExp(x) ==
    IF x = NaN THEN NaN
    ELSE IF x >= 0 THEN ExpSeries(x, Scale, 1, Scale)
    ELSE FxDiv(Scale, ExpSeries(-x, Scale, 1, Scale))

RECURSIVE LnSeries(_, _, _, _)
LnSeries(u2, pow, k, acc) ==
    IF pow = 0 \/ k > 80 THEN acc
    ELSE LET np == FxMul(pow, u2)
         IN  LnSeries(u2, np, k + 2, acc + DivInt(np, k + 2))

\* ln y for y near 1, as 2 * atanh((y - 1) / (y + 1)).
LnCore(y) ==
    LET u == FxDiv(y - Scale, y + Scale)
    IN  2 * LnSeries(FxMul(u, u), u, 1, u)

Ln2 == LnCore(2 * Scale)

\* ln y for y > 0, halving or doubling y into [1/2, 2] first.
RECURSIVE LnReduce(_)
LnReduce(y) ==
    IF y > 2 * Scale THEN LnReduce((y + 1) \div 2) + Ln2
    ELSE IF 2 * y < Scale THEN LnReduce(2 * y) - Ln2
    ELSE LnCore(y)

\* np.log: nan (negative argument) and -inf (zero) are both NaN here.
FxLn(y) == IF y = NaN \/ y <= 0 THEN NaN ELSE LnReduce(y)

\* round() / np.round of a fixed-point number to an integer: half to even.
RoundHalfEven(x) ==
    LET fl == IF x >= 0 THEN x \div Scale ELSE -((-x + Scale - 1) \div Scale)
        fr == x - fl * Scale
    IN  IF 2 * fr < Scale THEN fl
        ELSE IF 2 * fr > Scale THEN fl + 1
        ELSE IF fl % 2 = 0 THEN fl ELSE fl + 1

\* ------------------------------------------------------------------------
\* Sequences of floats (numpy arrays, by value)
\* ------------------------------------------------------------------------

Last(s) == s[Len(s)]

RECURSIVE SumSeq(_)
SumSeq(s) == IF s = <<>> THEN 0 ELSE FxAdd(Head(s), SumSeq(Tail(s)))

\* Largest index j with xp[j] <= x (np.interp's binary search); 0 when none.
RECURSIVE LastAtMost(_, _, _)
LastAtMost(x, xp, j) ==
    IF j = 0 THEN 0
    ELSE IF xp[j] <= x THEN j
    ELSE LastAtMost(x, xp, j - 1)

\* np.interp(x, xp, fp): linear inside, the boundary value outside.
NpInterp(x, xp, fp) ==
    LET n == Len(xp)
        j == LastAtMost(x, xp, n)
    IN  IF x > xp[n] THEN fp[n]
        ELSE IF x < xp[1] THEN fp[1]
        ELSE IF j = n THEN fp[j]
        ELSE IF xp[j] = x THEN fp[j]
        ELSE LET slope == FxDiv(FxSub(fp[j + 1], fp[j]), xp[j + 1] - xp[j])
             IN  FxAdd(FxMul(slope, x - xp[j]), fp[j])

\* ------------------------------------------------------------------------
\* ZeroCurve (src/src/curves.py)
\* ------------------------------------------------------------------------

CurvePoint(t, r) == [tenor |-> t, rate |-> r]

\* sorted(points, key=lambda p: p.tenor): a stable insertion sort.
RECURSIVE InsertPoint(_, _)
InsertPoint(p, s) ==
    IF s = <<>> THEN <<p>>
    ELSE IF p.tenor < Head(s).tenor THEN <<p>> \o s
    ELSE <<Head(s)>> \o InsertPoint(p, Tail(s))

\* A constructor that keeps the caller's order.
SortPointsUnsorted(pts) == pts

RECURSIVE SortPoints(_)
SortPoints(pts) ==
    IF pts = <<>> THEN <<>>
    ELSE InsertPoint(pts[Len(pts)], SortPoints(SubSeq(pts, 1, Len(pts) - 1)))

NoCurve == [tenors |-> <<>>, rates |-> <<>>, hasCache |-> FALSE, dfs |-> <<>>]

Ok(c) == [err |-> "none", curve |-> c]

Raise(kind) == [err |-> kind, curve |-> NoCurve]

\* ZeroCurve.__init__(points, name, discount_factors): hasCache is
\* "discount_factors is not None".
ZeroCurveInit(points, hasCache, discount_factors) ==
    LET pts == SortPoints(points)
    IN  IF pts = <<>> THEN Raise("IndexError")
        ELSE IF pts[1].tenor <= 0 THEN Raise("ValueError")
        ELSE IF hasCache /\ Len(discount_factors) # Len(pts) THEN Raise("ValueError")
        ELSE Ok([tenors   |-> [i \in 1..Len(pts) |-> pts[i].tenor],
                 rates    |-> [i \in 1..Len(pts) |-> pts[i].rate],
                 hasCache |-> hasCache,
                 dfs      |-> IF hasCache THEN discount_factors ELSE <<>>])

\* ZeroCurve.from_dataframe: the cache is computed row by row, in row order.
FromDataframe(rows) ==
    ZeroCurveInit(rows, TRUE,
                  [i \in 1..Len(rows) |-> FxExp(FxNeg(FxMul(rows[i].rate, rows[i].tenor)))])

\* ZeroCurve.zero_rate
ZeroRate(c, tenor) ==
    IF tenor <= 0 THEN c.rates[1]
    ELSE IF tenor >= Last(c.tenors) THEN Last(c.rates)
    ELSE NpInterp(tenor, c.tenors, c.rates)

\* A discount_factor whose extension past the last node grows instead of decaying.
DiscountFactorGrowingTail(c, tenor) ==
    IF tenor <= 0 THEN Scale
    ELSE IF c.hasCache THEN
        IF tenor <= c.tenors[1] THEN FxExp(FxNeg(FxMul(c.rates[1], tenor)))
        ELSE IF tenor >= Last(c.tenors) THEN
            FxMul(Last(c.dfs), FxExp(FxMul(Last(c.rates), tenor - Last(c.tenors))))
        ELSE FxExp(NpInterp(tenor, c.tenors, [i \in 1..Len(c.dfs) |-> FxLn(c.dfs[i])]))
    ELSE FxExp(FxNeg(FxMul(ZeroRate(c, tenor), tenor)))

\* ZeroCurve.discount_factor
DiscountFactor(c, tenor) ==
    IF tenor <= 0 THEN Scale
    ELSE IF c.hasCache THEN
        IF tenor <= c.tenors[1] THEN FxExp(FxNeg(FxMul(c.rates[1], tenor)))
        ELSE IF tenor >= Last(c.tenors) THEN
            FxMul(Last(c.dfs), FxExp(FxNeg(FxMul(Last(c.rates), tenor - Last(c.tenors)))))
        ELSE FxExp(NpInterp(tenor, c.tenors, [i \in 1..Len(c.dfs) |-> FxLn(c.dfs[i])]))
    ELSE FxExp(FxNeg(FxMul(ZeroRate(c, tenor), tenor)))

NoValue == [err |-> "none", value |-> NaN, returned |-> FALSE]

Returned(v) == [err |-> "none", value |-> v, returned |-> TRUE]

Failed(kind) == [err |-> kind, value |-> NaN, returned |-> FALSE]

\* A forward_rate that lets an empty range through.
ForwardRateAllowsEmptyRange(c, start, end) ==
    IF end < start THEN Failed("ValueError")
    ELSE Returned(FxDiv(FxLn(FxDiv(DiscountFactor(c, start), DiscountFactor(c, end))),
                        end - start))

\* ZeroCurve.forward_rate
ForwardRate(c, start, end) ==
    IF end <= start THEN Failed("ValueError")
    ELSE Returned(FxDiv(FxLn(FxDiv(DiscountFactor(c, start), DiscountFactor(c, end))),
                        end - start))

\* ------------------------------------------------------------------------
\* Dates (datetime.date, pandas.Timestamp and pandas.DateOffset(months=n))
\* ------------------------------------------------------------------------

Date(y, m, d) == [year |-> y, month |-> m, day |-> d]

IsLeap(y) == (y % 4 = 0 /\ y % 100 # 0) \/ y % 400 = 0

DaysInMonth(y, m) ==
    IF m = 2 THEN (IF IsLeap(y) THEN 29 ELSE 28)
    ELSE IF m \in {4, 6, 9, 11} THEN 30 ELSE 31

RECURSIVE DaysBeforeMonth(_, _)
DaysBeforeMonth(y, m) ==
    IF m = 1 THEN 0 ELSE DaysBeforeMonth(y, m - 1) + DaysInMonth(y, m - 1)

\* date.toordinal()
ToOrdinal(dt) ==
    LET y == dt.year - 1
    IN  y * 365 + y \div 4 - y \div 100 + y \div 400
        + DaysBeforeMonth(dt.year, dt.month) + dt.day

\* (end - start).days
DaysBetween(start, end) == ToOrdinal(end) - ToOrdinal(start)

DateLess(a, b) == ToOrdinal(a) < ToOrdinal(b)

\* timestamp + pd.DateOffset(months=n): the day is kept, cut to the month's length.
AddMonths(dt, n) ==
    LET total == dt.year * 12 + (dt.month - 1) + n
        y     == total \div 12
        m     == (total % 12) + 1
    IN  Date(y, m, IF dt.day > DaysInMonth(y, m) THEN DaysInMonth(y, m) ELSE dt.day)

\* ------------------------------------------------------------------------
\* Day counts (src/src/daycount.py)
\* ------------------------------------------------------------------------

Min(a, b) == IF a <= b THEN a ELSE b

\* actual_365
Actual365(start, end) == FxDiv(DaysBetween(start, end), 365)

\* thirty_360
Thirty360(start, end) ==
    LET d1 == Min(start.day, 30)
        d2 == Min(end.day, IF start.day = 30 THEN 30 ELSE end.day)
    IN  FxDiv((end.year - start.year) * 360 + (end.month - start.month) * 30 + (d2 - d1), 360)

\* str.upper() on the convention names used here.
Upper(convention) ==
    IF convention = "act/365" THEN "ACT/365" ELSE convention

\* DAYCOUNT_FUNCTIONS
DaycountFunctions == {"ACT/365", "30/360"}

\* year_fraction raises ValueError for a convention outside DAYCOUNT_FUNCTIONS.
Supported(convention) == Upper(convention) \in DaycountFunctions

\* year_fraction, for a supported convention
YearFraction(start, end, convention) ==
    IF Upper(convention) = "ACT/365" THEN Actual365(start, end) ELSE Thirty360(start, end)

\* ------------------------------------------------------------------------
\* Schedules (src/src/schedule.py)
\* ------------------------------------------------------------------------

CashflowPeriod(s, e, a) == [start |-> s, end |-> e, accrual_factor |-> a]

\* The loop of generate_schedule: n more periods from period_start.
RECURSIVE SchedulePeriods(_, _, _, _)
SchedulePeriods(period_start, step_months, day_count, n) ==
    IF n <= 0 THEN <<>>
    ELSE LET period_end == AddMonths(period_start, step_months)
         IN  <<CashflowPeriod(period_start, period_end,
                              YearFraction(period_start, period_end, day_count))>>
             \o SchedulePeriods(period_end, step_months, day_count, n - 1)

NoSchedule == [err |-> "none", periods |-> <<>>, returned |-> FALSE]

\* generate_schedule
GenerateSchedule(start, tenor_years, payments_per_year, day_count) ==
    IF payments_per_year <= 0 THEN [NoSchedule EXCEPT !.err = "ValueError"]
    ELSE LET total_periods == RoundHalfEven(tenor_years * payments_per_year)
             step_months   == RoundHalfEven(FxDiv(12, payments_per_year))
         IN  IF total_periods = 0 THEN [NoSchedule EXCEPT !.err = "ValueError"]
             ELSE IF total_periods > 0 /\ ~Supported(day_count)
                  THEN [NoSchedule EXCEPT !.err = "ValueError"]
             ELSE [err |-> "none", returned |-> TRUE,
                   periods |-> SchedulePeriods(start, step_months, day_count, total_periods)]

\* ------------------------------------------------------------------------
\* The bootstrap as one function (ZeroCurve.from_par_swap_dataframe)
\* ------------------------------------------------------------------------

\* A grid sized from the last row of the table as it was passed in.
BootStepsLastRow(df, payment_frequency) == RoundHalfEven(Last(df).tenor * payment_frequency)

\* Line 68: steps = int(np.round(max_tenor * payment_frequency))
BootSteps(df, payment_frequency) ==
    RoundHalfEven(Last(SortPoints(df)).tenor * payment_frequency)

\* Line 72: tenors = np.arange(1, steps + 1) / payment_frequency
BootTenors(steps, payment_frequency) ==
    [i \in 1..steps |-> FxDiv(i * Scale, payment_frequency * Scale)]

\* Line 73: accruals = np.diff(np.concatenate(([0.0], tenors)))
BootAccruals(tenors) ==
    [i \in 1..Len(tenors) |-> IF i = 1 THEN tenors[1] ELSE tenors[i] - tenors[i - 1]]

\* A bootstrap that forgets the accrual in the node's own coupon.
NodeDiscountFactorNoAccrual(par_rate, accruals, discount_factors, idx) ==
    IF idx = 0 THEN FxDiv(Scale, FxAdd(Scale, par_rate))
    ELSE FxDiv(FxSub(Scale,
                     FxMul(par_rate,
                           SumSeq([j \in 1..idx |-> FxMul(accruals[j], discount_factors[j])]))),
               FxAdd(Scale, par_rate))

\* Lines 78-86 for one idx (Python's idx; the arrays here start at 1).
NodeDiscountFactor(par_rate, accruals, discount_factors, idx) ==
    IF idx = 0 THEN FxDiv(Scale, FxAdd(Scale, FxMul(par_rate, accruals[1])))
    ELSE LET pv_previous_coupons ==
                 FxMul(par_rate,
                       SumSeq([j \in 1..idx |-> FxMul(accruals[j], discount_factors[j])]))
             numerator   == FxSub(Scale, pv_previous_coupons)
             denominator == FxAdd(Scale, FxMul(par_rate, accruals[idx + 1]))
         IN  FxDiv(numerator, denominator)

\* An iteration that also reads the entry it is about to write.
NodeReadsThrough(idx) == 1..(idx + 1)

\* Line 83: the entries of discount_factors an iteration reads,
\* discount_factors[:idx] (none when idx = 0, where line 81 continues).
NodeReads(idx) == 1..idx

\* Lines 80 and 86: the entry an iteration writes, discount_factors[idx].
NodeWrites(idx) == idx + 1

\* Lines 77-86: the loop from idx on, discount_factors[:idx] already written.
RECURSIVE BootLoop(_, _, _, _, _, _)
BootLoop(par_tenors, par_rates, tenors, accruals, discount_factors, idx) ==
    IF idx = Len(tenors) THEN discount_factors
    ELSE BootLoop(par_tenors, par_rates, tenors, accruals,
                  Append(discount_factors,
                         NodeDiscountFactor(NpInterp(tenors[idx + 1], par_tenors, par_rates),
                                            accruals, discount_factors, idx)),
                  idx + 1)

\* Lines 88-90: zero rates, points and the curve.
BootCurve(tenors, discount_factors) ==
    LET zero_rates == [i \in 1..Len(tenors) |->
                          FxDiv(FxNeg(FxLn(discount_factors[i])), tenors[i])]
    IN  ZeroCurveInit([i \in 1..Len(tenors) |-> CurvePoint(tenors[i], zero_rates[i])],
                      TRUE, discount_factors)

\* ZeroCurve.from_par_swap_dataframe on a non-empty quote table.
FromParSwapDataframe(df, payment_frequency) ==
    IF payment_frequency <= 0 THEN Raise("ValueError")
    ELSE IF BootSteps(df, payment_frequency) <= 0 THEN Raise("ValueError")
    ELSE LET sorted_df == SortPoints(df)
             tenors    == BootTenors(BootSteps(df, payment_frequency), payment_frequency)
         IN  BootCurve(tenors,
                       BootLoop([i \in 1..Len(sorted_df) |-> sorted_df[i].tenor],
                                [i \in 1..Len(sorted_df) |-> sorted_df[i].rate],
                                tenors, BootAccruals(tenors), <<>>, 0))

\* ------------------------------------------------------------------------
\* Curve transforms (src/src/pricing_engine.py), on curve values
\* ------------------------------------------------------------------------

\* A bump that rebuilds the cache and leaves the node rates as they were.
BumpCurveStaleRates(c, bump_bp) ==
    LET bump       == DivInt(bump_bp, 10000)
        n          == Len(c.tenors)
        bumped_dfs == [i \in 1..n |->
                          FxMul(DiscountFactor(c, c.tenors[i]),
                                FxExp(FxNeg(FxMul(bump, c.tenors[i]))))]
    IN  ZeroCurveInit([i \in 1..n |-> CurvePoint(c.tenors[i], c.rates[i])], TRUE, bumped_dfs)

\* bump_curve; bump_bp is in basis points.
BumpCurve(c, bump_bp) ==
    LET bump         == DivInt(bump_bp, 10000)
        n            == Len(c.tenors)
        base_dfs     == [i \in 1..n |-> DiscountFactor(c, c.tenors[i])]
        bumped_dfs   == [i \in 1..n |->
                            FxMul(base_dfs[i], FxExp(FxNeg(FxMul(bump, c.tenors[i]))))]
        bumped_rates == [i \in 1..n |-> FxDiv(FxNeg(FxLn(bumped_dfs[i])), c.tenors[i])]
    IN  ZeroCurveInit([i \in 1..n |-> CurvePoint(c.tenors[i], bumped_rates[i])],
                      TRUE, bumped_dfs)

\* sorted(tenor_shifts.keys())
RECURSIVE SortedKeys(_)
SortedKeys(S) ==
    IF S = {} THEN <<>>
    ELSE LET m == CHOOSE x \in S : \A y \in S : x <= y
         IN  <<m>> \o SortedKeys(S \ {m})

\* A shift that is not extended beyond the dictionary's tenors.
ShiftAtZeroOutside(tenor, tenor_shifts) ==
    LET sorted_tenors == SortedKeys(DOMAIN tenor_shifts)
    IN  IF tenor < sorted_tenors[1] \/ tenor > Last(sorted_tenors) THEN 0
        ELSE NpInterp(tenor, sorted_tenors,
                      [k \in 1..Len(sorted_tenors) |->
                          DivInt(tenor_shifts[sorted_tenors[k]], 10000)])

\* Lines 85-104: the shift of one node, in decimal; the dictionary is not empty.
ShiftAt(tenor, tenor_shifts) ==
    IF tenor \in DOMAIN tenor_shifts THEN DivInt(tenor_shifts[tenor], 10000)
    ELSE LET sorted_tenors == SortedKeys(DOMAIN tenor_shifts)
         IN  IF tenor < sorted_tenors[1]
             THEN DivInt(tenor_shifts[sorted_tenors[1]], 10000)
             ELSE IF tenor > Last(sorted_tenors)
             THEN DivInt(tenor_shifts[Last(sorted_tenors)], 10000)
             ELSE LET j      == CHOOSE k \in 1..(Len(sorted_tenors) - 1) :
                                    /\ sorted_tenors[k] <= tenor
                                    /\ tenor <= sorted_tenors[k + 1]
                      t1     == sorted_tenors[j]
                      t2     == sorted_tenors[j + 1]
                      shift1 == DivInt(tenor_shifts[t1], 10000)
                      shift2 == DivInt(tenor_shifts[t2], 10000)
                      alpha  == FxDiv(tenor - t1, t2 - t1)
                  IN  FxAdd(shift1, FxMul(alpha, FxSub(shift2, shift1)))

\* Lines 106-114 and 203-210: rates plus shifts, the cache recomputed from them.
ShiftedCurve(c, shifts) ==
    LET n            == Len(c.tenors)
        bumped_rates == [i \in 1..n |-> FxAdd(c.rates[i], shifts[i])]
        bumped_dfs   == [i \in 1..n |-> FxExp(FxNeg(FxMul(bumped_rates[i], c.tenors[i])))]
    IN  ZeroCurveInit([i \in 1..n |-> CurvePoint(c.tenors[i], bumped_rates[i])],
                      TRUE, bumped_dfs)

\* apply_non_parallel_shift; tenor_shifts is a dictionary tenor -> basis points.
\* With an empty dictionary sorted_tenors[0] raises IndexError at the first node.
ApplyNonParallelShift(c, tenor_shifts) ==
    IF DOMAIN tenor_shifts = {} THEN Raise("IndexError")
    ELSE ShiftedCurve(c, [i \in 1..Len(c.tenors) |-> ShiftAt(c.tenors[i], tenor_shifts)])

\* One width for every key tenor.
DefaultWidthFixed(key_tenor) == 2 * Scale

\* Lines 181-191: the width used when width is None.
DefaultWidth(key_tenor) ==
    IF key_tenor < Scale THEN Scale
    ELSE IF key_tenor <= 5 * Scale THEN 2 * Scale
    ELSE 3 * Scale

\* Lines 194-201: the triangular shift of one node, in decimal.
KeyRateShiftAt(tenor, key_tenor, shift_decimal, width) ==
    LET distance == Abs(tenor - key_tenor)
    IN  IF distance <= width
        THEN FxMul(shift_decimal, FxSub(Scale, FxDiv(distance, width)))
        ELSE 0

\* apply_key_rate_shift with a width given by the caller.
ApplyKeyRateShiftWidth(c, key_tenor, shift_bp, width) ==
    ShiftedCurve(c, [i \in 1..Len(c.tenors) |->
                        KeyRateShiftAt(c.tenors[i], key_tenor, DivInt(shift_bp, 10000), width)])

\* apply_key_rate_shift with width=None.
ApplyKeyRateShift(c, key_tenor, shift_bp) ==
    ApplyKeyRateShiftWidth(c, key_tenor, shift_bp, DefaultWidth(key_tenor))

\* ------------------------------------------------------------------------
\* Swap pricing (src/src/swap_pricing.py)
\* ------------------------------------------------------------------------

SwapDefinition(valuation_date, effective_date, maturity_years, notional, fixed_rate, payer, fixed_leg_frequency, floating_leg_frequency) ==
    [valuation_date |-> valuation_date, effective_date |-> effective_date,
     maturity_years |-> maturity_years, notional |-> notional, fixed_rate |-> fixed_rate,
     payer |-> payer, fixed_leg_frequency |-> fixed_leg_frequency,
     floating_leg_frequency |-> floating_leg_frequency,
     fixed_leg_daycount |-> "30/360", floating_leg_daycount |-> "ACT/365", spread |-> 0]

NoRows == [err |-> "none", rows |-> <<>>]

\* A fixed row that is paid whoever the payer is.
FixedRowAlwaysPaid(swap, discount_curve, period) ==
    LET t_pay    == YearFraction(swap.valuation_date, period.end, "ACT/365")
        discount == DiscountFactor(discount_curve, t_pay)
        cashflow == FxMul(FxMul(swap.notional, swap.fixed_rate), period.accrual_factor)
    IN  [period_start |-> period.start, period_end |-> period.end,
         accrual_factor |-> period.accrual_factor, coupon_rate |-> swap.fixed_rate,
         forward_rate |-> NaN, cashflow |-> FxNeg(cashflow),
         discount_factor |-> discount,
         present_value |-> FxMul(FxNeg(cashflow), discount),
         time_to_payment |-> t_pay, leg |-> "fixed", projection_rate |-> swap.fixed_rate]

\* One row of _build_fixed_cashflows (lines 43-61).
FixedRow(swap, discount_curve, period) ==
    LET t_pay     == YearFraction(swap.valuation_date, period.end, "ACT/365")
        discount  == DiscountFactor(discount_curve, t_pay)
        cashflow  == FxMul(FxMul(swap.notional, swap.fixed_rate), period.accrual_factor)
        direction == IF swap.payer = "fixed" THEN -1 ELSE 1
    IN  [period_start |-> period.start, period_end |-> period.end,
         accrual_factor |-> period.accrual_factor, coupon_rate |-> swap.fixed_rate,
         forward_rate |-> NaN, cashflow |-> FxMul(direction * Scale, cashflow),
         discount_factor |-> discount,
         present_value |-> FxMul(FxMul(direction * Scale, cashflow), discount),
         time_to_payment |-> t_pay, leg |-> "fixed", projection_rate |-> swap.fixed_rate]

\* Lines 42-63: one row per period of the schedule, or the schedule's error.
FixedRows(swap, discount_curve, schedule) ==
    IF schedule.err # "none" THEN [NoRows EXCEPT !.err = schedule.err]
    ELSE [NoRows EXCEPT !.rows = [i \in 1..Len(schedule.periods) |->
                                     FixedRow(swap, discount_curve, schedule.periods[i])]]

\* SwapPricer._build_fixed_cashflows
BuildFixedCashflows(swap, discount_curve) ==
    FixedRows(swap, discount_curve,
              GenerateSchedule(swap.effective_date, swap.maturity_years,
                               swap.fixed_leg_frequency, swap.fixed_leg_daycount))

\* A floating row signed like the fixed leg.
FloatingRowFixedSign(swap, discount_curve, period, forward) ==
    LET t_end          == YearFraction(swap.valuation_date, period.end, "ACT/365")
        effective_rate == FxAdd(forward, swap.spread)
        cashflow       == FxMul(FxMul(swap.notional, effective_rate), period.accrual_factor)
        discount       == DiscountFactor(discount_curve, t_end)
        direction      == IF swap.payer = "fixed" THEN -1 ELSE 1
    IN  [period_start |-> period.start, period_end |-> period.end,
         accrual_factor |-> period.accrual_factor, coupon_rate |-> effective_rate,
         forward_rate |-> forward, cashflow |-> FxMul(direction * Scale, cashflow),
         discount_factor |-> discount,
         present_value |-> FxMul(FxMul(direction * Scale, cashflow), discount),
         time_to_payment |-> t_end, leg |-> "floating", projection_rate |-> forward]

\* One row of _build_floating_cashflows (lines 73-94); forward is what
\* forward_rate returned.
FloatingRow(swap, discount_curve, period, forward) ==
    LET t_end          == YearFraction(swap.valuation_date, period.end, "ACT/365")
        effective_rate == FxAdd(forward, swap.spread)
        cashflow       == FxMul(FxMul(swap.notional, effective_rate), period.accrual_factor)
        discount       == DiscountFactor(discount_curve, t_end)
        direction      == IF swap.payer = "fixed" THEN 1 ELSE -1
    IN  [period_start |-> period.start, period_end |-> period.end,
         accrual_factor |-> period.accrual_factor, coupon_rate |-> effective_rate,
         forward_rate |-> forward, cashflow |-> FxMul(direction * Scale, cashflow),
         discount_factor |-> discount,
         present_value |-> FxMul(FxMul(direction * Scale, cashflow), discount),
         time_to_payment |-> t_end, leg |-> "floating", projection_rate |-> forward]

\* The forward_rate call of one floating period (lines 74-76).
PeriodForward(swap, forward_curve, period) ==
    ForwardRate(forward_curve,
                YearFraction(swap.valuation_date, period.start, "ACT/365"),
                YearFraction(swap.valuation_date, period.end, "ACT/365"))

\* Lines 72-96: one row per period; a failing forward_rate ends the call.
FloatingRows(swap, discount_curve, forward_curve, schedule) ==
    IF schedule.err # "none" THEN [NoRows EXCEPT !.err = schedule.err]
    ELSE IF \E i \in 1..Len(schedule.periods) :
                PeriodForward(swap, forward_curve, schedule.periods[i]).err # "none"
    THEN [NoRows EXCEPT !.err = "ValueError"]
    ELSE [NoRows EXCEPT !.rows = [i \in 1..Len(schedule.periods) |->
             FloatingRow(swap, discount_curve, schedule.periods[i],
                         PeriodForward(swap, forward_curve, schedule.periods[i]).value)]]

\* SwapPricer._build_floating_cashflows
BuildFloatingCashflows(swap, discount_curve, forward_curve) ==
    FloatingRows(swap, discount_curve, forward_curve,
                 GenerateSchedule(swap.effective_date, swap.maturity_years,
                                  swap.floating_leg_frequency, swap.floating_leg_daycount))

\* pd.concat([fixed_leg, float_leg]); the fixed leg is built first, so its
\* error is the one raised when both fail.
ConcatLegs(fixed_leg, float_leg) ==
    IF fixed_leg.err # "none" THEN fixed_leg
    ELSE IF float_leg.err # "none" THEN float_leg
    ELSE [NoRows EXCEPT !.rows = fixed_leg.rows \o float_leg.rows]

\* SwapPricer.build_cashflows
BuildCashflows(swap, discount_curve, forward_curve) ==
    ConcatLegs(BuildFixedCashflows(swap, discount_curve),
               BuildFloatingCashflows(swap, discount_curve, forward_curve))

\* pandas Series.sum(): missing values (nan) are skipped.
RECURSIVE PandasSum(_)
PandasSum(s) ==
    IF s = <<>> THEN 0
    ELSE IF Head(s) = NaN THEN PandasSum(Tail(s))
    ELSE Head(s) + PandasSum(Tail(s))

\* present_value of the rows of one leg, in row order.
LegValues(rows, leg) ==
    LET RECURSIVE Pick(_)
        Pick(i) == IF i > Len(rows) THEN <<>>
                   ELSE IF rows[i].leg = leg THEN <<rows[i].present_value>> \o Pick(i + 1)
                   ELSE Pick(i + 1)
    IN  Pick(1)

\* A table left in the order the legs were concatenated.
SortRowsUnsorted(rows) == rows

RECURSIVE InsertRow(_, _)
InsertRow(r, s) ==
    IF s = <<>> THEN <<r>>
    ELSE IF DateLess(r.period_end, Head(s).period_end) THEN <<r>> \o s
    ELSE <<Head(s)>> \o InsertRow(r, Tail(s))

\* cashflows.sort_values("period_end"), rows with one period_end in row order.
RECURSIVE SortRows(_)
SortRows(rows) ==
    IF rows = <<>> THEN <<>>
    ELSE InsertRow(rows[Len(rows)], SortRows(SubSeq(rows, 1, Len(rows) - 1)))

NoPricing == [err |-> "none", cashflows |-> <<>>, fixed_leg_pv |-> 0,
              floating_leg_pv |-> 0, npv |-> 0]

\* Lines 105-113 on the frame of cashflows; one without rows has no "leg"
\* column (KeyError).
Priced(cashflows, fixed_pv, float_pv) ==
    IF cashflows.err # "none" THEN [NoPricing EXCEPT !.err = cashflows.err]
    ELSE IF cashflows.rows = <<>> THEN [NoPricing EXCEPT !.err = "KeyError"]
    ELSE [err |-> "none", cashflows |-> SortRows(cashflows.rows),
          fixed_leg_pv |-> fixed_pv, floating_leg_pv |-> float_pv,
          npv |-> fixed_pv + float_pv]

\* Lines 105-106: the two leg sums.
LegSums(cashflows) ==
    Priced(cashflows, PandasSum(LegValues(cashflows.rows, "fixed")),
           PandasSum(LegValues(cashflows.rows, "floating")))

\* SwapPricer.price
Price(swap, discount_curve, forward_curve) ==
    LegSums(BuildCashflows(swap, discount_curve, forward_curve))

\* ------------------------------------------------------------------------
\* Curves as objects: numpy arrays live in a heap, a ZeroCurve holds
\* references to its _tenors, _rates and _discount_factors (0 is None).
\* ------------------------------------------------------------------------

NoObj == [tenors |-> 0, rates |-> 0, dfs |-> 0]

\* What the methods of a curve read: curve.tenors and curve.zero_rates return
\* copies, discount_factor and forward_rate only read the arrays.
Deref(h, o) ==
    [tenors   |-> h[o.tenors],
     rates    |-> h[o.rates],
     hasCache |-> o.dfs # 0,
     dfs      |-> IF o.dfs # 0 THEN h[o.dfs] ELSE <<>>]

\* ZeroCurve.__init__ stores arrays it builds itself with np.array(...).
NewCurve(h, c) ==
    IF c.hasCache
    THEN [heap |-> h \o <<c.tenors, c.rates, c.dfs>>,
          obj  |-> [tenors |-> Len(h) + 1, rates |-> Len(h) + 2, dfs |-> Len(h) + 3]]
    ELSE [heap |-> h \o <<c.tenors, c.rates>>,
          obj  |-> [tenors |-> Len(h) + 1, rates |-> Len(h) + 2, dfs |-> 0]]

\* The outcome of a call that builds a curve: the heap after it and the curve.
Built(h, r) ==
    IF r.err # "none" THEN [err |-> r.err, heap |-> h, obj |-> NoObj]
    ELSE [err |-> "none", heap |-> NewCurve(h, r.curve).heap, obj |-> NewCurve(h, r.curve).obj]

\* A bump_curve that writes the bumped arrays into the curve it was given.
BumpCurveObjInPlace(h, o, bump_bp) ==
    LET r == BumpCurve(Deref(h, o), bump_bp)
    IN  [err  |-> "none",
         heap |-> [i \in 1..Len(h) |->
                      IF i = o.rates THEN r.curve.rates
                      ELSE IF i = o.dfs THEN r.curve.dfs
                      ELSE h[i]],
         obj  |-> o]

\* bump_curve on objects
BumpCurveObj(h, o, bump_bp) == Built(h, BumpCurve(Deref(h, o), bump_bp))

\* apply_non_parallel_shift on objects
ApplyNonParallelShiftObj(h, o, tenor_shifts) ==
    Built(h, ApplyNonParallelShift(Deref(h, o), tenor_shifts))

\* apply_key_rate_shift on objects, width=None
ApplyKeyRateShiftObj(h, o, key_tenor, shift_bp) ==
    Built(h, ApplyKeyRateShift(Deref(h, o), key_tenor, shift_bp))

\* apply_key_rate_shift on objects, width given
ApplyKeyRateShiftWidthObj(h, o, key_tenor, shift_bp, width) ==
    Built(h, ApplyKeyRateShiftWidth(Deref(h, o), key_tenor, shift_bp, width))

\* SwapPricer(discount_curve, forward_curve).price(swap): the pricer keeps the
\* two references and reads through them.
PriceObj(h, swap, discount_curve, forward_curve) ==
    Price(swap, Deref(h, discount_curve), Deref(h, forward_curve))

NoRisk == [err |-> "none", npv |-> 0, npv_change |-> 0, pv01 |-> 0, dv01 |-> 0,
           key_rate_dv01 |-> <<>>, cashflows |-> <<>>]

\* Body applied to the value of one statement: the statements of a function
\* in their order, each result named for the ones after it.
With(v, Body(_)) == Body(v)

\* A call that raised: nothing is returned, the heap is as the call left it.
Raised(h, err) == [heap |-> h, result |-> [NoRisk EXCEPT !.err = err]]

\* A price_with_risk that bumps the discount curve and leaves the forward
\* curve as it is.
PriceWithRiskDiscountOnly(h, swap, discount_curve, forward_curve, bump_bp) ==
    With(PriceObj(h, swap, discount_curve, forward_curve), LAMBDA pricing :
    With(BumpCurveObj(h, discount_curve, bump_bp), LAMBDA bumped_discount :
    With(PriceObj(bumped_discount.heap, swap, bumped_discount.obj, forward_curve),
         LAMBDA bumped_pricing :
        IF pricing.err # "none" THEN Raised(h, pricing.err)
        ELSE IF bumped_discount.err # "none" THEN Raised(h, bumped_discount.err)
        ELSE IF bumped_pricing.err # "none"
        THEN Raised(bumped_discount.heap, bumped_pricing.err)
        ELSE [heap   |-> bumped_discount.heap,
              result |-> [NoRisk EXCEPT !.npv = pricing.npv,
                                        !.pv01 = bumped_pricing.npv - pricing.npv,
                                        !.dv01 = bumped_pricing.npv - pricing.npv,
                                        !.cashflows = pricing.cashflows]])))

\* price_with_risk
PriceWithRiskObj(h, swap, discount_curve, forward_curve, bump_bp) ==
    With(PriceObj(h, swap, discount_curve, forward_curve), LAMBDA pricing :
    With(BumpCurveObj(h, discount_curve, bump_bp), LAMBDA bumped_discount :
    With(BumpCurveObj(bumped_discount.heap, forward_curve, bump_bp), LAMBDA bumped_forward :
    With(PriceObj(bumped_forward.heap, swap, bumped_discount.obj, bumped_forward.obj),
         LAMBDA bumped_pricing :
        IF pricing.err # "none" THEN Raised(h, pricing.err)
        ELSE IF bumped_discount.err # "none" THEN Raised(h, bumped_discount.err)
        ELSE IF bumped_forward.err # "none"
        THEN Raised(bumped_discount.heap, bumped_forward.err)
        ELSE IF bumped_pricing.err # "none"
        THEN Raised(bumped_forward.heap, bumped_pricing.err)
        ELSE [heap   |-> bumped_forward.heap,
              result |-> [NoRisk EXCEPT !.npv = pricing.npv,
                                        !.pv01 = bumped_pricing.npv - pricing.npv,
                                        !.dv01 = bumped_pricing.npv - pricing.npv,
                                        !.cashflows = pricing.cashflows]]))))

\* A price_with_non_parallel_shift whose PV01 is the further-bumped NPV minus
\* the base NPV.
PriceWithNonParallelShiftAgainstBase(h, swap, discount_curve, forward_curve, discount_shifts, forward_shifts) ==
    With(PriceObj(h, swap, discount_curve, forward_curve), LAMBDA base_pricing :
    With(ApplyNonParallelShiftObj(h, discount_curve, discount_shifts),
         LAMBDA shifted_discount :
    With(ApplyNonParallelShiftObj(shifted_discount.heap, forward_curve, forward_shifts),
         LAMBDA shifted_forward :
        IF base_pricing.err # "none" THEN Raised(h, base_pricing.err)
        ELSE IF shifted_discount.err # "none" THEN Raised(h, shifted_discount.err)
        ELSE IF shifted_forward.err # "none"
        THEN Raised(shifted_discount.heap, shifted_forward.err)
        ELSE
    With(PriceObj(shifted_forward.heap, swap, shifted_discount.obj, shifted_forward.obj),
         LAMBDA shifted_pricing :
    With(BumpCurveObj(shifted_forward.heap, shifted_discount.obj, Scale),
         LAMBDA bumped_discount :
    With(BumpCurveObj(bumped_discount.heap, shifted_forward.obj, Scale),
         LAMBDA bumped_forward :
    With(PriceObj(bumped_forward.heap, swap, bumped_discount.obj, bumped_forward.obj),
         LAMBDA bumped_pricing :
        IF shifted_pricing.err # "none"
        THEN Raised(shifted_forward.heap, shifted_pricing.err)
        ELSE IF bumped_discount.err # "none"
        THEN Raised(shifted_forward.heap, bumped_discount.err)
        ELSE IF bumped_forward.err # "none"
        THEN Raised(bumped_discount.heap, bumped_forward.err)
        ELSE IF bumped_pricing.err # "none"
        THEN Raised(bumped_forward.heap, bumped_pricing.err)
        ELSE [heap   |-> bumped_forward.heap,
              result |-> [NoRisk EXCEPT
                            !.npv = shifted_pricing.npv,
                            !.npv_change = shifted_pricing.npv - base_pricing.npv,
                            !.pv01 = bumped_pricing.npv - base_pricing.npv,
                            !.dv01 = bumped_pricing.npv - base_pricing.npv,
                            !.cashflows = shifted_pricing.cashflows]])))))))

\* price_with_non_parallel_shift
PriceWithNonParallelShiftObj(h, swap, discount_curve, forward_curve, discount_shifts, forward_shifts) ==
    With(PriceObj(h, swap, discount_curve, forward_curve), LAMBDA base_pricing :
    With(ApplyNonParallelShiftObj(h, discount_curve, discount_shifts),
         LAMBDA shifted_discount :
    With(ApplyNonParallelShiftObj(shifted_discount.heap, forward_curve, forward_shifts),
         LAMBDA shifted_forward :
        IF base_pricing.err # "none" THEN Raised(h, base_pricing.err)
        ELSE IF shifted_discount.err # "none" THEN Raised(h, shifted_discount.err)
        ELSE IF shifted_forward.err # "none"
        THEN Raised(shifted_discount.heap, shifted_forward.err)
        ELSE
    With(PriceObj(shifted_forward.heap, swap, shifted_discount.obj, shifted_forward.obj),
         LAMBDA shifted_pricing :
    With(BumpCurveObj(shifted_forward.heap, shifted_discount.obj, Scale),
         LAMBDA bumped_discount :
    With(BumpCurveObj(bumped_discount.heap, shifted_forward.obj, Scale),
         LAMBDA bumped_forward :
    With(PriceObj(bumped_forward.heap, swap, bumped_discount.obj, bumped_forward.obj),
         LAMBDA bumped_pricing :
        IF shifted_pricing.err # "none"
        THEN Raised(shifted_forward.heap, shifted_pricing.err)
        ELSE IF bumped_discount.err # "none"
        THEN Raised(shifted_forward.heap, bumped_discount.err)
        ELSE IF bumped_forward.err # "none"
        THEN Raised(bumped_discount.heap, bumped_forward.err)
        ELSE IF bumped_pricing.err # "none"
        THEN Raised(bumped_forward.heap, bumped_pricing.err)
        ELSE [heap   |-> bumped_forward.heap,
              result |-> [NoRisk EXCEPT
                            !.npv = shifted_pricing.npv,
                            !.npv_change = shifted_pricing.npv - base_pricing.npv,
                            !.pv01 = bumped_pricing.npv - shifted_pricing.npv,
                            !.dv01 = bumped_pricing.npv - shifted_pricing.npv,
                            !.cashflows = shifted_pricing.cashflows]])))))))

\* key_rate_dv01[key_tenor] = value on a dictionary kept as (tenor, value)
\* pairs in insertion order: a key already there keeps its place.
SetItem(key_rate_dv01, key_tenor, value) ==
    IF \E i \in 1..Len(key_rate_dv01) : key_rate_dv01[i].tenor = key_tenor
    THEN [i \in 1..Len(key_rate_dv01) |->
             IF key_rate_dv01[i].tenor = key_tenor
             THEN [tenor |-> key_tenor, value |-> value]
             ELSE key_rate_dv01[i]]
    ELSE Append(key_rate_dv01, [tenor |-> key_tenor, value |-> value])

\* A loop that shifts the curves the tenor before left behind, not the
\* curves it was given.
RECURSIVE KeyRateLoopCumulative(_, _, _, _, _, _, _, _)
KeyRateLoopCumulative(h, swap, discount_curve, forward_curve, base_npv, key_tenors, bump_bp, key_rate_dv01) ==
    IF key_tenors = <<>>
    THEN [heap |-> h, result |-> [NoRisk EXCEPT !.key_rate_dv01 = key_rate_dv01]]
    ELSE
    With(ApplyKeyRateShiftObj(h, discount_curve, Head(key_tenors), bump_bp),
         LAMBDA shifted_discount :
    With(ApplyKeyRateShiftObj(shifted_discount.heap, forward_curve, Head(key_tenors), bump_bp),
         LAMBDA shifted_forward :
    With(PriceObj(shifted_forward.heap, swap, shifted_discount.obj, shifted_forward.obj),
         LAMBDA shifted_pricing :
        IF shifted_discount.err # "none" THEN Raised(h, shifted_discount.err)
        ELSE IF shifted_forward.err # "none"
        THEN Raised(shifted_discount.heap, shifted_forward.err)
        ELSE IF shifted_pricing.err # "none"
        THEN Raised(shifted_forward.heap, shifted_pricing.err)
        ELSE KeyRateLoopCumulative(shifted_forward.heap, swap, shifted_discount.obj,
                                   shifted_forward.obj, base_npv, Tail(key_tenors), bump_bp,
                                   SetItem(key_rate_dv01, Head(key_tenors),
                                           shifted_pricing.npv - base_npv)))))

\* The loop of calculate_key_rate_dv01 (lines 239-250) over the key tenors
\* still to do; key_rate_dv01 is the dictionary so far.
RECURSIVE KeyRateLoop(_, _, _, _, _, _, _, _)
KeyRateLoop(h, swap, discount_curve, forward_curve, base_npv, key_tenors, bump_bp, key_rate_dv01) ==
    IF key_tenors = <<>>
    THEN [heap |-> h, result |-> [NoRisk EXCEPT !.key_rate_dv01 = key_rate_dv01]]
    ELSE
    With(ApplyKeyRateShiftObj(h, discount_curve, Head(key_tenors), bump_bp),
         LAMBDA shifted_discount :
    With(ApplyKeyRateShiftObj(shifted_discount.heap, forward_curve, Head(key_tenors), bump_bp),
         LAMBDA shifted_forward :
    With(PriceObj(shifted_forward.heap, swap, shifted_discount.obj, shifted_forward.obj),
         LAMBDA shifted_pricing :
        IF shifted_discount.err # "none" THEN Raised(h, shifted_discount.err)
        ELSE IF shifted_forward.err # "none"
        THEN Raised(shifted_discount.heap, shifted_forward.err)
        ELSE IF shifted_pricing.err # "none"
        THEN Raised(shifted_forward.heap, shifted_pricing.err)
        ELSE KeyRateLoop(shifted_forward.heap, swap, discount_curve, forward_curve,
                         base_npv, Tail(key_tenors), bump_bp,
                         SetItem(key_rate_dv01, Head(key_tenors),
                                 shifted_pricing.npv - base_npv)))))

\* calculate_key_rate_dv01
CalculateKeyRateDv01Obj(h, swap, discount_curve, forward_curve, key_tenors, bump_bp) ==
    With(PriceObj(h, swap, discount_curve, forward_curve), LAMBDA base_pricing :
        IF base_pricing.err # "none" THEN Raised(h, base_pricing.err)
        ELSE KeyRateLoop(h, swap, discount_curve, forward_curve, base_pricing.npv,
                         key_tenors, bump_bp, <<>>))

\* ------------------------------------------------------------------------
\* State
\* ------------------------------------------------------------------------

VARIABLES
    ctor,   \* one call of ZeroCurve.__init__: its arguments, position and outcome
    boot,   \* one call of ZeroCurve.from_par_swap_dataframe and its locals
    query,  \* a curve and the answers it gave to discount_factor and forward_rate
    sched,  \* one call of generate_schedule: its arguments, position and outcome
    frame,  \* the heap of arrays, the curves alive in a session and the last call made
    daycount, \* one call of year_fraction: its arguments, position and outcome
    desk,   \* a swap, its two curves and what the pricing and risk calls on them returned
    bumped  \* one call of bump_curve: the curve given, the bump and the curve returned

vars == <<ctor, boot, query, sched, frame, daycount, desk, bumped>>

\* Sequences over S of length lo..hi.
SeqsOf(S, lo, hi) == UNION {[1..n -> S] : n \in lo..hi}

\* ------------------------------------------------------------------------
\* ZeroCurve.__init__ as an operation
\* ------------------------------------------------------------------------

MaxPoints == 2

CtorTenors == {Fx(-1, 0), 0, Fx(0, 500), Fx(1, 0), Fx(2, 0)}

CtorRates == {Fx(0, 10), Fx(0, 50)}

CtorDFs == {Fx(0, 950), Fx(0, 900)}

CtorIdle == [points |-> <<>>, hasCache |-> FALSE, discount_factors |-> <<>>,
             pc |-> "idle", result |-> Raise("none")]

CtorPoints == SeqsOf({CurvePoint(t, r) : t \in CtorTenors, r \in CtorRates}, 0, MaxPoints)

\* Calls without discount_factors (None) and calls with an array of any length.
CtorCalls ==
    {[CtorIdle EXCEPT !.points = p, !.pc = "call"] : p \in CtorPoints}
    \cup
    {[CtorIdle EXCEPT !.points = p, !.hasCache = TRUE, !.discount_factors = d, !.pc = "call"] :
        p \in CtorPoints, d \in SeqsOf(CtorDFs, 0, MaxPoints)}

Construct ==
    /\ ctor.pc = "call"
    /\ ctor' = [ctor EXCEPT !.pc = "done",
                            !.result = ZeroCurveInit(ctor.points, ctor.hasCache,
                                                     ctor.discount_factors)]
    /\ UNCHANGED <<boot, query, sched, frame, daycount, desk, bumped>>

\* ------------------------------------------------------------------------
\* ZeroCurve.from_par_swap_dataframe, one loop iteration per step
\* ------------------------------------------------------------------------

MaxQuotes == 2

QuoteTenors == {Fx(0, 250), Fx(1, 0), Fx(1, 500), Fx(2, 0)}

QuoteRates == {0, Fx(0, 20), Fx(0, 50), Fx(2, 0)}

Frequencies == {0, 1, 2, 4}

BootIdle == [df |-> <<>>, payment_frequency |-> 0, pc |-> "idle", idx |-> 0,
             par_tenors |-> <<>>, par_rates |-> <<>>, tenors |-> <<>>,
             accruals |-> <<>>, discount_factors |-> <<>>, result |-> Raise("none"),
             reads |-> {}, writes |-> <<>>]

BootCalls ==
    {[BootIdle EXCEPT !.df = q, !.payment_frequency = f, !.pc = "call"] :
        q \in SeqsOf({CurvePoint(t, r) : t \in QuoteTenors, r \in QuoteRates}, 1, MaxQuotes),
        f \in Frequencies}

\* Lines 60-75: the guards, the sorted quotes, the grid and the empty array.
BootBegin ==
    /\ boot.pc = "call"
    /\ IF boot.payment_frequency <= 0 \/ BootSteps(boot.df, boot.payment_frequency) <= 0
       THEN boot' = [boot EXCEPT !.pc = "done", !.result = Raise("ValueError")]
       ELSE LET sorted_df == SortPoints(boot.df)
                tenors    == BootTenors(BootSteps(boot.df, boot.payment_frequency),
                                        boot.payment_frequency)
            IN  boot' = [boot EXCEPT
                    !.pc = "loop",
                    !.idx = 0,
                    !.par_tenors = [i \in 1..Len(sorted_df) |-> sorted_df[i].tenor],
                    !.par_rates = [i \in 1..Len(sorted_df) |-> sorted_df[i].rate],
                    !.tenors = tenors,
                    !.accruals = BootAccruals(tenors),
                    !.discount_factors = <<>>]
    /\ UNCHANGED <<ctor, query, sched, frame, daycount, desk, bumped>>

\* Lines 77-86: one iteration of the loop.
BootStep ==
    /\ boot.pc = "loop"
    /\ boot.idx < Len(boot.tenors)
    /\ LET par_rate == NpInterp(boot.tenors[boot.idx + 1], boot.par_tenors, boot.par_rates)
       IN  boot' = [boot EXCEPT
                    !.idx = boot.idx + 1,
                    !.reads = NodeReads(boot.idx),
                    !.writes = Append(boot.writes, NodeWrites(boot.idx)),
                    !.discount_factors =
                        Append(boot.discount_factors,
                               NodeDiscountFactor(par_rate, boot.accruals,
                                                  boot.discount_factors, boot.idx))]
    /\ UNCHANGED <<ctor, query, sched, frame, daycount, desk, bumped>>

\* Lines 88-90: the zero rates and the curve.
BootFinish ==
    /\ boot.pc = "loop"
    /\ boot.idx = Len(boot.tenors)
    /\ boot' = [boot EXCEPT !.pc = "done",
                            !.result = BootCurve(boot.tenors, boot.discount_factors)]
    /\ UNCHANGED <<ctor, query, sched, frame, daycount, desk, bumped>>

\* ------------------------------------------------------------------------
\* Queries on one curve: discount_factor and forward_rate
\* ------------------------------------------------------------------------

MaxNodes == 2

MaxAsked == 2

NodeTenors == {Fx(1, 0), Fx(2, 0)}

NodeRates == {0, Fx(0, 10), Fx(0, 100)}

QueryTenors == {0, Fx(0, 500), Fx(1, 0), Fx(1, 500), Fx(2, 0), Fx(3, 0)}

NodeRows == SeqsOf({CurvePoint(t, r) : t \in NodeTenors, r \in NodeRates}, 1, MaxNodes)

\* Curves built without a cache (the constructor) and with one (from_dataframe).
QueryCurves ==
    {ZeroCurveInit(p, FALSE, <<>>).curve : p \in NodeRows}
    \cup {FromDataframe(p).curve : p \in NodeRows}

NotAsked == [start |-> 0, end |-> 0, answer |-> NoValue]

QueryIdle == [curve |-> NoCurve, asked |-> {}, forward |-> NotAsked]

Asked(f) == f.answer.returned \/ f.answer.err # "none"

AskDiscountFactor(t) ==
    /\ query.curve # NoCurve
    /\ ~Asked(query.forward)
    /\ Cardinality(query.asked) < MaxAsked
    /\ query' = [query EXCEPT
                    !.asked = @ \cup {[tenor |-> t, value |-> DiscountFactor(query.curve, t)]}]
    /\ UNCHANGED <<ctor, boot, sched, frame, daycount, desk, bumped>>

AskForwardRate(start, end) ==
    /\ query.curve # NoCurve
    /\ ~Asked(query.forward)
    /\ query.asked = {}
    /\ query' = [query EXCEPT
                    !.forward = [start |-> start, end |-> end,
                                 answer |-> ForwardRate(query.curve, start, end)]]
    /\ UNCHANGED <<ctor, boot, sched, frame, daycount, desk, bumped>>

\* ------------------------------------------------------------------------
\* generate_schedule as an operation
\* ------------------------------------------------------------------------

StartDates == {Date(2025, 11, 17), Date(2025, 1, 31), Date(2024, 2, 29)}

TenorYears == {Fx(-1, 0), Fx(0, 100), Fx(0, 250), Fx(1, 0), Fx(1, 250), Fx(5, 0)}

PaymentsPerYear == {-1, 0, 1, 2, 4, 5, 12, 24}

DayCounts == {"ACT/365", "30/360", "act/365", "ACT/360"}

SchedIdle == [start |-> Date(1, 1, 1), tenor_years |-> 0, payments_per_year |-> 0,
              day_count |-> "", pc |-> "idle", result |-> NoSchedule]

\* The longest schedule asked for: five years of monthly periods.
MaxPeriods == 60

SchedCalls ==
    {c \in {[SchedIdle EXCEPT !.start = s, !.tenor_years = t, !.payments_per_year = f,
                              !.day_count = d, !.pc = "call"] :
               s \in StartDates, t \in TenorYears, f \in PaymentsPerYear, d \in DayCounts} :
        RoundHalfEven(c.tenor_years * c.payments_per_year) <= MaxPeriods}

Generate ==
    /\ sched.pc = "call"
    /\ sched' = [sched EXCEPT
                    !.pc = "done",
                    !.result = GenerateSchedule(sched.start, sched.tenor_years,
                                                sched.payments_per_year, sched.day_count)]
    /\ UNCHANGED <<ctor, boot, query, frame, daycount, desk, bumped>>

\* ------------------------------------------------------------------------
\* A pricing session: two bootstrapped curves, then transforms and pricing
\* calls in any order on the curves alive
\* ------------------------------------------------------------------------

MaxCurves == 3

\* build_curves bootstraps both curves with payment_frequency=4.
FrameFrequency == 4

DiscountQuotes == {<<CurvePoint(Fx(1, 0), Fx(0, 40))>>}

ForwardQuotes ==
    {<<CurvePoint(Fx(1, 0), Fx(0, 45))>>,
     <<CurvePoint(Fx(0, 250), Fx(0, 30)), CurvePoint(Fx(1, 0), Fx(0, 50))>>}

FrameBumps == {Fx(1, 0), Fx(-25, 0)}

\* Dictionaries tenor -> basis points: an empty one, one keyed on curve nodes
\* and one keyed between them.
NoShifts == <<>>

NodeShifts == (Fx(0, 500) :> Fx(10, 0)) @@ (Fx(1, 0) :> Fx(-10, 0))

TwistShifts == (Fx(0, 300) :> Fx(5, 0)) @@ (Fx(0, 800) :> Fx(20, 0))

FrameShifts == {NoShifts, NodeShifts, TwistShifts}

FrameKeyTenors == {Fx(0, 500)}

FrameWidths == {0, Fx(0, 300)}

\* A six-month payer swap, and a swap whose negative maturity leaves both
\* schedules empty.
PayerSwap ==
    SwapDefinition(Date(2025, 11, 13), Date(2025, 11, 17), Fx(0, 500), Fx(100, 0),
                   Fx(0, 40), "fixed", 2, 4)

EmptySwap ==
    SwapDefinition(Date(2025, 11, 13), Date(2025, 11, 17), Fx(-1, 0), Fx(100, 0),
                   Fx(0, 40), "float", 2, 4)

FrameSwaps == {PayerSwap, EmptySwap}

\* The call made last and how it ended.
NoCall == [op |-> "none", err |-> "none"]

FrameIdle == [heap |-> <<>>, curves |-> <<>>, last |-> NoCall]

\* A curve of the session and its arrays as they were when it was built.
Alive(h, o) == [obj |-> o, made |-> Deref(h, o)]

\* The session after build_curves: the discount curve, then the forward curve.
Session(discount, forward) ==
    LET d == NewCurve(<<>>, discount)
        f == NewCurve(d.heap, forward)
    IN  [heap |-> f.heap, curves |-> <<Alive(f.heap, d.obj), Alive(f.heap, f.obj)>>,
         last |-> NoCall]

\* After a transform: the caller keeps the curve it got back.
AfterTransform(op, r) ==
    [heap   |-> r.heap,
     curves |-> IF r.err = "none" THEN Append(frame.curves, Alive(r.heap, r.obj))
                ELSE frame.curves,
     last   |-> [NoCall EXCEPT !.op = op, !.err = r.err]]

\* After a pricing call: the curves it built were local to it and are gone.
AfterPricing(op, r) ==
    [heap   |-> SubSeq(r.heap, 1, Len(frame.heap)),
     curves |-> frame.curves,
     last   |-> [op |-> op, err |-> r.result.err]]

CanBuild == Len(frame.curves) < MaxCurves

FrameBump(i, bump_bp) ==
    /\ CanBuild
    /\ frame' = AfterTransform("bump_curve",
                               BumpCurveObj(frame.heap, frame.curves[i].obj, bump_bp))
    /\ UNCHANGED <<ctor, boot, query, sched, daycount, desk, bumped>>

FrameNonParallelShift(i, tenor_shifts) ==
    /\ CanBuild
    /\ frame' = AfterTransform("apply_non_parallel_shift",
                               ApplyNonParallelShiftObj(frame.heap, frame.curves[i].obj,
                                                        tenor_shifts))
    /\ UNCHANGED <<ctor, boot, query, sched, daycount, desk, bumped>>

FrameKeyRateShift(i, key_tenor, shift_bp) ==
    /\ CanBuild
    /\ frame' = AfterTransform("apply_key_rate_shift",
                               ApplyKeyRateShiftObj(frame.heap, frame.curves[i].obj,
                                                    key_tenor, shift_bp))
    /\ UNCHANGED <<ctor, boot, query, sched, daycount, desk, bumped>>

FrameKeyRateShiftWidth(i, key_tenor, shift_bp, width) ==
    /\ CanBuild
    /\ frame' = AfterTransform("apply_key_rate_shift",
                               ApplyKeyRateShiftWidthObj(frame.heap, frame.curves[i].obj,
                                                         key_tenor, shift_bp, width))
    /\ UNCHANGED <<ctor, boot, query, sched, daycount, desk, bumped>>

FramePrice(swap, i, j) ==
    /\ frame' = [frame EXCEPT !.last =
                     [op  |-> "price",
                      err |-> PriceObj(frame.heap, swap, frame.curves[i].obj,
                                       frame.curves[j].obj).err]]
    /\ UNCHANGED <<ctor, boot, query, sched, daycount, desk, bumped>>

FramePriceWithRisk(swap, i, j, bump_bp) ==
    /\ frame' = AfterPricing("price_with_risk",
                             PriceWithRiskObj(frame.heap, swap, frame.curves[i].obj,
                                              frame.curves[j].obj, bump_bp))
    /\ UNCHANGED <<ctor, boot, query, sched, daycount, desk, bumped>>

FramePriceWithNonParallelShift(swap, i, j, discount_shifts, forward_shifts) ==
    /\ frame' = AfterPricing("price_with_non_parallel_shift",
                             PriceWithNonParallelShiftObj(frame.heap, swap,
                                                          frame.curves[i].obj,
                                                          frame.curves[j].obj,
                                                          discount_shifts, forward_shifts))
    /\ UNCHANGED <<ctor, boot, query, sched, daycount, desk, bumped>>

FrameKeyRateDv01(swap, i, j, key_tenors, bump_bp) ==
    /\ frame' = AfterPricing("calculate_key_rate_dv01",
                             CalculateKeyRateDv01Obj(frame.heap, swap, frame.curves[i].obj,
                                                     frame.curves[j].obj, key_tenors,
                                                     bump_bp))
    /\ UNCHANGED <<ctor, boot, query, sched, daycount, desk, bumped>>

\* ------------------------------------------------------------------------
\* Operation: year_fraction (src/src/daycount.py)
\* ------------------------------------------------------------------------

DaycountDates ==
    {Date(2025, 1, 30), Date(2025, 1, 31), Date(2025, 2, 28), Date(2025, 3, 30),
     Date(2025, 3, 31), Date(2025, 7, 31), Date(2025, 11, 17), Date(2026, 1, 31),
     Date(2026, 5, 17)}

DaycountIdle == [start |-> Date(1, 1, 1), end |-> Date(1, 1, 1), convention |-> "",
                 pc |-> "idle", result |-> NoValue]

DaycountCalls ==
    {[DaycountIdle EXCEPT !.start = s, !.end = e, !.convention = c, !.pc = "call"] :
        s \in DaycountDates, e \in DaycountDates, c \in DayCounts}

\* year_fraction(start, end, convention)
YearFractionCall ==
    /\ daycount.pc = "call"
    /\ daycount' = [daycount EXCEPT
                       !.pc = "done",
                       !.result = IF Supported(daycount.convention)
                                  THEN Returned(YearFraction(daycount.start, daycount.end,
                                                             daycount.convention))
                                  ELSE Failed("ValueError")]
    /\ UNCHANGED <<ctor, boot, query, sched, frame, desk, bumped>>

\* ------------------------------------------------------------------------
\* Operation: pricing and risk calls on one swap and its curves
\* ------------------------------------------------------------------------

\* Quotes inside the range validate_curve_dataframe accepts (-0.5 to 2.0) whose
\* bootstrap leaves a negative discount factor at the one-year node.
SteepQuotes == <<CurvePoint(Fx(0, 250), 0), CurvePoint(Fx(1, 0), Fx(2, 0))>>

\* The quote tables of a desk: discount quotes, then forward quotes.
DeskQuotes ==
    {<<dq, fq>> : dq \in DiscountQuotes, fq \in ForwardQuotes}
    \cup {<<SteepQuotes, fq>> : fq \in {<<CurvePoint(Fx(1, 0), Fx(0, 45))>>}}

\* A one-year swap whose holder pays the floating leg, and a six-month swap
\* whose payer is neither of the two documented values.
ReceiverSwap ==
    SwapDefinition(Date(2025, 11, 13), Date(2025, 11, 17), Fx(1, 0), Fx(100, 0),
                   Fx(0, 40), "float", 2, 4)

OtherPayerSwap ==
    SwapDefinition(Date(2025, 11, 13), Date(2025, 11, 17), Fx(0, 500), Fx(100, 0),
                   Fx(0, 40), "floating", 2, 4)

DeskSwaps == {PayerSwap, ReceiverSwap, OtherPayerSwap, EmptySwap}

\* Lists of key tenors: one tenor, two tenors in both orders, one tenor twice.
DeskKeyTenors ==
    {<<Fx(0, 500)>>, <<Fx(1, 0)>>, <<Fx(0, 500), Fx(1, 0)>>, <<Fx(1, 0), Fx(0, 500)>>,
     <<Fx(0, 500), Fx(0, 500)>>}

\* A call on the desk: its name, its arguments and what it returned.
DeskNoCall == [op |-> "none", bump_bp |-> 0, discount_shifts |-> <<>>,
               forward_shifts |-> <<>>, key_tenors |-> <<>>, repeated |-> FALSE,
               pricing |-> NoPricing, result |-> NoRisk]

DeskIdle == [pc |-> "idle", swap |-> EmptySwap, heap |-> <<>>, discount |-> NoObj,
             forward |-> NoObj, discount_curve |-> NoCurve, forward_curve |-> NoCurve,
             last |-> DeskNoCall, first_risk |-> DeskNoCall]

\* The desk after build_curves and the swap's definition.
Desk(swap, discount, forward) ==
    [DeskIdle EXCEPT !.pc = "open", !.swap = swap,
                     !.heap = Session(discount, forward).heap,
                     !.discount = Session(discount, forward).curves[1].obj,
                     !.forward = Session(discount, forward).curves[2].obj,
                     !.discount_curve = discount, !.forward_curve = forward]

\* The desk after a call: the curves the call built were local to it; the
\* first price_with_risk call is remembered, a later one is marked repeated.
AfterCall(h, call) ==
    [desk EXCEPT !.heap = SubSeq(h, 1, Len(desk.heap)),
                 !.last = [call EXCEPT !.repeated = call.op = "price_with_risk"
                                                    /\ desk.first_risk.op # "none"],
                 !.first_risk = IF call.op = "price_with_risk" /\ @.op = "none"
                                THEN call ELSE @]

\* SwapPricer(discount_curve, forward_curve).price(swap)
DeskPrice ==
    /\ desk.pc = "open"
    /\ desk' = AfterCall(desk.heap,
                         [DeskNoCall EXCEPT
                             !.op = "price",
                             !.pricing = PriceObj(desk.heap, desk.swap, desk.discount,
                                                  desk.forward)])
    /\ UNCHANGED <<ctor, boot, query, sched, frame, daycount, bumped>>

\* What a risk call hands back to the desk.
RiskCall(call, r) == AfterCall(r.heap, [call EXCEPT !.result = r.result])

\* price_with_risk(swap, discount_curve, forward_curve, bump_bp)
DeskPriceWithRisk(bump_bp) ==
    /\ desk.pc = "open"
    /\ desk' = RiskCall([DeskNoCall EXCEPT !.op = "price_with_risk", !.bump_bp = bump_bp],
                        PriceWithRiskObj(desk.heap, desk.swap, desk.discount, desk.forward,
                                         bump_bp))
    /\ UNCHANGED <<ctor, boot, query, sched, frame, daycount, bumped>>

\* price_with_non_parallel_shift(swap, discount_curve, forward_curve, ...)
DeskPriceWithNonParallelShift(discount_shifts, forward_shifts) ==
    /\ desk.pc = "open"
    /\ desk' = RiskCall([DeskNoCall EXCEPT !.op = "price_with_non_parallel_shift",
                                           !.discount_shifts = discount_shifts,
                                           !.forward_shifts = forward_shifts],
                        PriceWithNonParallelShiftObj(desk.heap, desk.swap, desk.discount,
                                                     desk.forward, discount_shifts,
                                                     forward_shifts))
    /\ UNCHANGED <<ctor, boot, query, sched, frame, daycount, bumped>>

\* calculate_key_rate_dv01(swap, discount_curve, forward_curve, key_tenors, bump_bp)
DeskKeyRateDv01(key_tenors, bump_bp) ==
    /\ desk.pc = "open"
    /\ desk' = RiskCall([DeskNoCall EXCEPT !.op = "calculate_key_rate_dv01",
                                           !.key_tenors = key_tenors, !.bump_bp = bump_bp],
                        CalculateKeyRateDv01Obj(desk.heap, desk.swap, desk.discount,
                                                desk.forward, key_tenors, bump_bp))
    /\ UNCHANGED <<ctor, boot, query, sched, frame, daycount, bumped>>

\* default_tenors of the dashboard (src/app.py line 464).
DefaultTenors ==
    <<Fx(0, 250), Fx(0, 500), Fx(1, 0), Fx(2, 0), Fx(3, 0), Fx(5, 0), Fx(7, 0), Fx(10, 0),
      Fx(15, 0), Fx(20, 0), Fx(30, 0)>>

\* Quotes out to the maturity of a five-year swap, one par rate for every
\* tenor of the grid: discount, then forward.
VanillaQuotes ==
    {<<dq, fq>> :
        dq \in {<<CurvePoint(Fx(5, 0), Fx(0, 30))>>, <<CurvePoint(Fx(5, 0), Fx(0, 40))>>},
        fq \in {<<CurvePoint(Fx(5, 0), Fx(0, 30))>>, <<CurvePoint(Fx(5, 0), Fx(0, 45))>>}}

\* Plain vanilla five-year swaps: fixed against floating, no spread, with the
\* payment frequencies the dashboard offers.
VanillaSwaps ==
    {SwapDefinition(Date(2025, 11, 13), Date(2025, 11, 17), Fx(5, 0), Fx(100, 0),
                    fixed_rate, payer, fixed_leg_frequency, 4) :
        fixed_rate \in {Fx(0, 30), Fx(0, 42), Fx(0, 50)}, payer \in {"fixed", "float"},
        fixed_leg_frequency \in {2}}

\* ------------------------------------------------------------------------
\* Operation: bump_curve (src/src/pricing_engine.py)
\* ------------------------------------------------------------------------

MaxBumpNodes == 3

BumpTenors == {Fx(1, 0), Fx(2, 0), Fx(3, 0)}

BumpSizes == {Fx(1, 0), Fx(-25, 0)}

\* The curves handed to bump_curve: built from the rows of a zero-rate
\* table, without a cache by the constructor and with one by from_dataframe.
BumpRows == SeqsOf({CurvePoint(t, r) : t \in BumpTenors, r \in NodeRates}, 1, MaxBumpNodes)

BumpInputs ==
    {ZeroCurveInit(p, FALSE, <<>>).curve : p \in BumpRows}
    \cup {FromDataframe(p).curve : p \in BumpRows}

BumpIdle == [pc |-> "idle", curve |-> NoCurve, bump_bp |-> 0, result |-> NoCurve,
             op |-> "none", err |-> "none", tenor_shifts |-> <<>>, key_tenor |-> 0,
             shift_bp |-> 0, width_given |-> FALSE, width |-> 0, depth |-> 0]

BumpCurveCall(bump_bp) ==
    /\ bumped.pc = "idle"
    /\ bumped' = [bumped EXCEPT !.pc = "done", !.bump_bp = bump_bp,
                                !.result = BumpCurve(bumped.curve, bump_bp).curve]
    /\ UNCHANGED <<ctor, boot, query, sched, frame, daycount, desk>>

\* ------------------------------------------------------------------------
\* Operations: apply_non_parallel_shift and apply_key_rate_shift
\* (src/src/pricing_engine.py), one call on one curve
\* ------------------------------------------------------------------------

ShiftRates == {Fx(0, 10), Fx(0, 100)}

\* The curves handed to the shifts, with and without a cache.
ShiftRows == SeqsOf({CurvePoint(t, r) : t \in BumpTenors, r \in ShiftRates}, 1, MaxBumpNodes)

ShiftInputs ==
    {ZeroCurveInit(p, FALSE, <<>>).curve : p \in ShiftRows}
    \cup {FromDataframe(p).curve : p \in ShiftRows}

\* Dictionaries tenor -> basis points: keyed between the nodes, on one node,
\* on the outer nodes, and around the whole node range.
BetweenShifts == (Fx(1, 500) :> Fx(10, 0)) @@ (Fx(2, 500) :> Fx(-20, 0))

SingleShift == (Fx(2, 0) :> Fx(25, 0))

OuterShifts == (Fx(1, 0) :> Fx(10, 0)) @@ (Fx(3, 0) :> Fx(50, 0))

WideShifts == (Fx(0, 500) :> Fx(-10, 0)) @@ (Fx(1, 500) :> 0) @@ (Fx(4, 0) :> Fx(30, 0))

ShiftMaps == {NoShifts, BetweenShifts, SingleShift, OuterShifts, WideShifts}

ShiftKeyTenors == {Fx(0, 500), Fx(1, 0), Fx(2, 0), Fx(5, 0), Fx(6, 0)}

ShiftWidths == {Fx(0, 500), Fx(1, 500)}

NonParallelShiftCall(tenor_shifts) ==
    /\ bumped.pc = "idle"
    /\ LET r == ApplyNonParallelShift(bumped.curve, tenor_shifts)
       IN  bumped' = [bumped EXCEPT !.pc = "done", !.op = "apply_non_parallel_shift",
                                    !.tenor_shifts = tenor_shifts,
                                    !.err = r.err, !.result = r.curve]
    /\ UNCHANGED <<ctor, boot, query, sched, frame, daycount, desk>>

\* apply_key_rate_shift(curve, key_tenor, shift_bp): width is None.
KeyRateShiftCall(key_tenor, shift_bp) ==
    /\ bumped.pc = "idle"
    /\ LET r == ApplyKeyRateShift(bumped.curve, key_tenor, shift_bp)
       IN  bumped' = [bumped EXCEPT !.pc = "done", !.op = "apply_key_rate_shift",
                                    !.key_tenor = key_tenor, !.shift_bp = shift_bp,
                                    !.err = r.err, !.result = r.curve]
    /\ UNCHANGED <<ctor, boot, query, sched, frame, daycount, desk>>

\* apply_key_rate_shift(curve, key_tenor, shift_bp, width)
KeyRateShiftWidthCall(key_tenor, shift_bp, width) ==
    /\ bumped.pc = "idle"
    /\ LET r == ApplyKeyRateShiftWidth(bumped.curve, key_tenor, shift_bp, width)
       IN  bumped' = [bumped EXCEPT !.pc = "done", !.op = "apply_key_rate_shift",
                                    !.key_tenor = key_tenor, !.shift_bp = shift_bp,
                                    !.width_given = TRUE, !.width = width,
                                    !.err = r.err, !.result = r.curve]
    /\ UNCHANGED <<ctor, boot, query, sched, frame, daycount, desk>>

\* ------------------------------------------------------------------------
\* A chain of transforms: a bootstrap, then bump_curve,
\* apply_non_parallel_shift and apply_key_rate_shift in any order, each on
\* the curve the one before returned
\* ------------------------------------------------------------------------

MaxChain == 2

\* Quote tables within the range validate_curve_dataframe accepts.
ChainQuotes ==
    {<<CurvePoint(Fx(1, 0), Fx(0, 40))>>,
     <<CurvePoint(Fx(0, 250), Fx(0, 30)), CurvePoint(Fx(1, 0), Fx(0, 50))>>,
     <<CurvePoint(Fx(2, 0), Fx(0, 35))>>,
     SteepQuotes}

ChainFrequencies == {1, 2, 4}

ChainShifts == {NodeShifts, TwistShifts, BetweenShifts}

ChainKeyTenors == {Fx(0, 500), Fx(1, 0)}

ChainBootstrap(df, payment_frequency) ==
    /\ bumped.pc = "idle"
    /\ LET r == FromParSwapDataframe(df, payment_frequency)
       IN  /\ r.err = "none"
           /\ bumped' = [bumped EXCEPT !.pc = "chain", !.op = "from_par_swap_dataframe",
                                        !.curve = r.curve, !.result = r.curve]
    /\ UNCHANGED <<ctor, boot, query, sched, frame, daycount, desk>>

\* The transform returned r; the next one is applied to its curve.
ChainNext(op, r) ==
    /\ r.err = "none"
    /\ bumped' = [bumped EXCEPT !.op = op, !.depth = bumped.depth + 1,
                                !.curve = bumped.result, !.result = r.curve]

ChainBump(bump_bp) ==
    /\ bumped.pc = "chain" /\ bumped.depth < MaxChain
    /\ ChainNext("bump_curve", BumpCurve(bumped.result, bump_bp))
    /\ UNCHANGED <<ctor, boot, query, sched, frame, daycount, desk>>

ChainNonParallelShift(tenor_shifts) ==
    /\ bumped.pc = "chain" /\ bumped.depth < MaxChain
    /\ ChainNext("apply_non_parallel_shift", ApplyNonParallelShift(bumped.result, tenor_shifts))
    /\ UNCHANGED <<ctor, boot, query, sched, frame, daycount, desk>>

ChainKeyRateShift(key_tenor, shift_bp) ==
    /\ bumped.pc = "chain" /\ bumped.depth < MaxChain
    /\ ChainNext("apply_key_rate_shift", ApplyKeyRateShift(bumped.result, key_tenor, shift_bp))
    /\ UNCHANGED <<ctor, boot, query, sched, frame, daycount, desk>>

\* ------------------------------------------------------------------------
\* Specifications
\* ------------------------------------------------------------------------

InitSched ==
    /\ daycount = DaycountIdle /\ desk = DeskIdle /\ bumped = BumpIdle
    /\ ctor = CtorIdle /\ boot = BootIdle /\ query = QueryIdle /\ sched \in SchedCalls
    /\ frame = FrameIdle

NextSched == Generate

SpecSched == InitSched /\ [][NextSched]_vars

InitQuery ==
    /\ daycount = DaycountIdle /\ desk = DeskIdle /\ bumped = BumpIdle
    /\ ctor = CtorIdle /\ boot = BootIdle /\ sched = SchedIdle /\ frame = FrameIdle
    /\ query \in {[QueryIdle EXCEPT !.curve = c] : c \in QueryCurves}

NextQuery ==
    \/ \E t \in QueryTenors : AskDiscountFactor(t)
    \/ \E start, end \in QueryTenors : AskForwardRate(start, end)

SpecQuery == InitQuery /\ [][NextQuery]_vars

InitCtor ==
    /\ daycount = DaycountIdle /\ desk = DeskIdle /\ bumped = BumpIdle
    /\ ctor \in CtorCalls /\ boot = BootIdle /\ query = QueryIdle /\ sched = SchedIdle
    /\ frame = FrameIdle

NextCtor == Construct

SpecCtor == InitCtor /\ [][NextCtor]_vars

InitBoot ==
    /\ daycount = DaycountIdle /\ desk = DeskIdle /\ bumped = BumpIdle
    /\ ctor = CtorIdle /\ boot \in BootCalls /\ query = QueryIdle /\ sched = SchedIdle
    /\ frame = FrameIdle

NextBoot == BootBegin \/ BootStep \/ BootFinish

SpecBoot == InitBoot /\ [][NextBoot]_vars

InitFrame ==
    /\ daycount = DaycountIdle /\ desk = DeskIdle /\ bumped = BumpIdle
    /\ ctor = CtorIdle /\ boot = BootIdle /\ query = QueryIdle /\ sched = SchedIdle
    /\ \E dq \in DiscountQuotes, fq \in ForwardQuotes :
           frame = Session(FromParSwapDataframe(dq, FrameFrequency).curve,
                           FromParSwapDataframe(fq, FrameFrequency).curve)

NextFrame ==
    \/ \E i \in 1..Len(frame.curves), bump_bp \in FrameBumps : FrameBump(i, bump_bp)
    \/ \E i \in 1..Len(frame.curves), tenor_shifts \in FrameShifts :
           FrameNonParallelShift(i, tenor_shifts)
    \/ \E i \in 1..Len(frame.curves), key_tenor \in FrameKeyTenors :
           FrameKeyRateShift(i, key_tenor, Fx(1, 0))
    \/ \E i \in 1..Len(frame.curves), key_tenor \in FrameKeyTenors, width \in FrameWidths :
           FrameKeyRateShiftWidth(i, key_tenor, Fx(1, 0), width)
    \/ \E i, j \in 1..Len(frame.curves), swap \in FrameSwaps : FramePrice(swap, i, j)
    \/ \E i, j \in 1..Len(frame.curves) : FramePriceWithRisk(PayerSwap, i, j, Fx(1, 0))
    \/ \E i, j \in 1..Len(frame.curves), forward_shifts \in {NoShifts, NodeShifts} :
           FramePriceWithNonParallelShift(PayerSwap, i, j, TwistShifts, forward_shifts)
    \/ \E i, j \in 1..Len(frame.curves) :
           FrameKeyRateDv01(PayerSwap, i, j, <<Fx(0, 500), Fx(6, 0)>>, Fx(1, 0))

SpecFrame == InitFrame /\ [][NextFrame]_vars

InitDesk ==
    /\ ctor = CtorIdle /\ boot = BootIdle /\ query = QueryIdle /\ sched = SchedIdle
    /\ frame = FrameIdle /\ daycount = DaycountIdle /\ bumped = BumpIdle
    /\ \E swap \in DeskSwaps, q \in DeskQuotes :
           desk = Desk(swap, FromParSwapDataframe(q[1], FrameFrequency).curve,
                       FromParSwapDataframe(q[2], FrameFrequency).curve)

NextDesk ==
    \/ DeskPrice
    \/ \E bump_bp \in FrameBumps : DeskPriceWithRisk(bump_bp)
    \/ \E forward_shifts \in {NoShifts, NodeShifts} :
           DeskPriceWithNonParallelShift(TwistShifts, forward_shifts)
    \/ \E key_tenors \in DeskKeyTenors : DeskKeyRateDv01(key_tenors, Fx(1, 0))

SpecDesk == InitDesk /\ [][NextDesk]_vars

InitBuckets ==
    /\ ctor = CtorIdle /\ boot = BootIdle /\ query = QueryIdle /\ sched = SchedIdle
    /\ frame = FrameIdle /\ daycount = DaycountIdle /\ bumped = BumpIdle
    /\ \E swap \in VanillaSwaps, q \in VanillaQuotes :
           desk = Desk(swap, FromParSwapDataframe(q[1], FrameFrequency).curve,
                       FromParSwapDataframe(q[2], FrameFrequency).curve)

NextBuckets ==
    \/ DeskPriceWithRisk(Fx(1, 0))
    \/ DeskKeyRateDv01(DefaultTenors, Fx(1, 0))

SpecBuckets == InitBuckets /\ [][NextBuckets]_vars

InitBump ==
    /\ ctor = CtorIdle /\ boot = BootIdle /\ query = QueryIdle /\ sched = SchedIdle
    /\ frame = FrameIdle /\ daycount = DaycountIdle /\ desk = DeskIdle
    /\ bumped \in {[BumpIdle EXCEPT !.curve = c] : c \in BumpInputs}

NextBump == \E bump_bp \in BumpSizes : BumpCurveCall(bump_bp)

SpecBump == InitBump /\ [][NextBump]_vars

InitShift ==
    /\ ctor = CtorIdle /\ boot = BootIdle /\ query = QueryIdle /\ sched = SchedIdle
    /\ frame = FrameIdle /\ daycount = DaycountIdle /\ desk = DeskIdle
    /\ bumped \in {[BumpIdle EXCEPT !.curve = c] : c \in ShiftInputs}

NextShift ==
    \/ \E tenor_shifts \in ShiftMaps : NonParallelShiftCall(tenor_shifts)
    \/ \E key_tenor \in ShiftKeyTenors, shift_bp \in BumpSizes : KeyRateShiftCall(key_tenor, shift_bp)
    \/ \E shift_bp \in BumpSizes, width \in ShiftWidths : KeyRateShiftWidthCall(Fx(2, 0), shift_bp, width)

SpecShift == InitShift /\ [][NextShift]_vars

InitChain ==
    /\ ctor = CtorIdle /\ boot = BootIdle /\ query = QueryIdle /\ sched = SchedIdle
    /\ frame = FrameIdle /\ daycount = DaycountIdle /\ desk = DeskIdle
    /\ bumped = BumpIdle

NextChain ==
    \/ \E df \in ChainQuotes, payment_frequency \in ChainFrequencies : ChainBootstrap(df, payment_frequency)
    \/ \E bump_bp \in BumpSizes : ChainBump(bump_bp)
    \/ \E tenor_shifts \in ChainShifts : ChainNonParallelShift(tenor_shifts)
    \/ \E key_tenor \in ChainKeyTenors, shift_bp \in BumpSizes : ChainKeyRateShift(key_tenor, shift_bp)

SpecChain == InitChain /\ [][NextChain]_vars

InitDaycount ==
    /\ ctor = CtorIdle /\ boot = BootIdle /\ query = QueryIdle /\ sched = SchedIdle
    /\ frame = FrameIdle /\ desk = DeskIdle /\ bumped = BumpIdle
    /\ daycount \in DaycountCalls

NextDaycount == YearFractionCall

SpecDaycount == InitDaycount /\ [][NextDaycount]_vars

\* ------------------------------------------------------------------------
\* Claims
\* ------------------------------------------------------------------------

BootReturned == boot.pc = "done" /\ boot.result.err = "none"

FlatQuotes == \A i \in 1..Len(boot.df) : boot.df[i].rate = boot.df[1].rate

\* (1 + r/f)^(-i), by repeated division.
RECURSIVE FlatDiscountFactor(_, _, _)
FlatDiscountFactor(r, f, i) ==
    IF i = 0 THEN Scale
    ELSE FxDiv(FlatDiscountFactor(r, f, i - 1), Scale + FxDiv(r, f * Scale))

\* f * ln(1 + r/f): the continuously compounded equivalent of a par rate r paid f times a year.
FlatZeroRate(r, f) == f * FxLn(Scale + FxDiv(r, f * Scale))

\* C1 as stated: bootstrapping quotes whose par rate is r at every quote
\* tenor gives a zero rate equal to r at every grid node (checked here with
\* the slack Tol = 1e-4, far wider than the claim's 1e-9).
C1_ZeroRateEqualsParRate ==
    (BootReturned /\ FlatQuotes) =>
        \A i \in 1..Len(boot.result.curve.rates) :
            /\ IsNum(boot.result.curve.rates[i])
            /\ Abs(boot.result.curve.rates[i] - boot.df[1].rate) <= Tol

\* C1 amended: bootstrapping quotes whose par rate is r at every quote tenor
\* gives the discount factor (1 + r/f)^(-i) at grid node i, hence the same
\* zero rate f*ln(1 + r/f) at every node (not r itself), up to rounding.
C1_FlatBootstrap ==
    (BootReturned /\ FlatQuotes) =>
        \A i \in 1..Len(boot.result.curve.rates) :
            /\ IsNum(boot.result.curve.rates[i])
            /\ Abs(boot.result.curve.dfs[i]
                     - FlatDiscountFactor(boot.df[1].rate, boot.payment_frequency, i)) <= Tol
            /\ Abs(boot.result.curve.rates[i]
                     - FlatZeroRate(boot.df[1].rate, boot.payment_frequency)) <= Tol

\* A returned bootstrap of flat 5% quotes on a quarterly grid of two years.
C1_Witness ==
    /\ BootReturned /\ FlatQuotes
    /\ boot.df[1].rate = Fx(0, 50)
    /\ boot.payment_frequency = 4
    /\ Len(boot.result.curve.tenors) = 8

CtorReturned == ctor.pc = "done" /\ ctor.result.err = "none"

NonDecreasing(s) == \A i \in 1..Len(s) - 1 : s[i] <= s[i + 1]

StrictlyIncreasing(s) == \A i \in 1..Len(s) - 1 : s[i] < s[i + 1]

DistinctTenors(pts) ==
    \A i, j \in 1..Len(pts) : i # j => pts[i].tenor # pts[j].tenor

\* C3 as stated: every successfully constructed ZeroCurve holds its node
\* tenors in strictly increasing order with first tenor > 0.
C3_StrictlyIncreasing ==
    CtorReturned =>
        /\ StrictlyIncreasing(ctor.result.curve.tenors)
        /\ ctor.result.curve.tenors[1] > 0

\* C3 amended: every successfully constructed ZeroCurve holds as many nodes
\* as points were given, its node tenors in non-decreasing order with first
\* tenor > 0; the order is strict exactly when the given tenors are
\* pairwise distinct (equal tenors are kept, not merged or rejected).
C3_SortedTenors ==
    CtorReturned =>
        /\ Len(ctor.result.curve.tenors) = Len(ctor.points)
        /\ NonDecreasing(ctor.result.curve.tenors)
        /\ ctor.result.curve.tenors[1] > 0
        /\ StrictlyIncreasing(ctor.result.curve.tenors) <=> DistinctTenors(ctor.points)

\* A curve built from two points given in decreasing tenor order.
C3_Witness ==
    /\ CtorReturned
    /\ Len(ctor.points) = 2
    /\ ctor.points[1].tenor > ctor.points[2].tenor

NonNegative(s) == \A i \in 1..Len(s) : s[i] >= 0

\* Every cached discount factor is exp(-rate * tenor) of its own node.
CacheFromRates(c) ==
    c.hasCache =>
        \A i \in 1..Len(c.tenors) : c.dfs[i] = FxExp(FxNeg(FxMul(c.rates[i], c.tenors[i])))

NonIncreasingAnswers ==
    \A a, b \in query.asked : a.tenor <= b.tenor => b.value <= a.value + Tol

UnitAtZero == \A a \in query.asked : a.tenor = 0 => a.value = Scale

\* C2 as stated: for every curve whose node zero rates are all non-negative,
\* with or without a cache, discount_factor(0) = 1 and discount_factor(t) <=
\* discount_factor(s) for all 0 <= s <= t (here with the rounding slack Tol).
C2_NonIncreasing ==
    NonNegative(query.curve.rates) => UnitAtZero /\ NonIncreasingAnswers

\* C2 amended: discount_factor(0) = 1 for every curve, and discount_factor
\* is non-increasing in tenor for every curve whose node zero rates are
\* non-negative and non-decreasing along the nodes and whose cache, when
\* there is one, holds exp(-rate * tenor) of each node.
C2_NonIncreasingForRisingRates ==
    /\ UnitAtZero
    /\ (NonNegative(query.curve.rates) /\ NonDecreasing(query.curve.rates)
            /\ CacheFromRates(query.curve))
        => NonIncreasingAnswers

\* A cached two-node curve with rising positive rates, asked inside and past
\* its node range, the later answer strictly smaller.
C2_Witness ==
    /\ query.curve.hasCache
    /\ Len(query.curve.rates) = 2
    /\ 0 < query.curve.rates[1] /\ query.curve.rates[1] < query.curve.rates[2]
    /\ CacheFromRates(query.curve)
    /\ \E a, b \in query.asked :
            a.tenor = Fx(1, 500) /\ b.tenor = Fx(3, 0) /\ b.value < a.value

\* C6: forward_rate(start, end) fails (the code's ValueError, no value) when
\* end <= start, and for end > start returns
\* ln(DF(start) / DF(end)) / (end - start) from the same curve's discount_factor.
C6_ForwardRate ==
    Asked(query.forward) =>
        LET f == query.forward
        IN  IF f.end <= f.start
            THEN f.answer.err = "ValueError" /\ ~f.answer.returned
            ELSE /\ f.answer.err = "none" /\ f.answer.returned
                 /\ f.answer.value =
                        FxDiv(FxLn(FxDiv(DiscountFactor(query.curve, f.start),
                                         DiscountFactor(query.curve, f.end))),
                              f.end - f.start)

\* forward_rate(3.0, 1.0) has been asked and has failed.
C6_Witness ==
    /\ query.forward.start = Fx(3, 0) /\ query.forward.end = Fx(1, 0)
    /\ query.forward.answer.err = "ValueError"

\* C4: every curve the bootstrap returns is fully valid (every node has a
\* strictly positive discount factor and a finite zero rate); when that
\* cannot hold the bootstrap fails and returns no curve.
C4_ReturnedCurveValid ==
    BootReturned =>
        \A i \in 1..Len(boot.result.curve.tenors) :
            /\ IsNum(boot.result.curve.dfs[i])
            /\ boot.result.curve.dfs[i] > 0
            /\ IsNum(boot.result.curve.rates[i])

MinTenor(pts) == CHOOSE t \in {pts[i].tenor : i \in 1..Len(pts)} :
                    \A i \in 1..Len(pts) : t <= pts[i].tenor

CtorMustFail ==
    \/ ctor.points = <<>>
    \/ ctor.points # <<>> /\ MinTenor(ctor.points) <= 0
    \/ ctor.hasCache /\ Len(ctor.discount_factors) # Len(ctor.points)

\* C5: construction fails with one and the same error kind (the code's
\* ValueError) and yields no curve when the point list is empty, when the
\* smallest tenor is <= 0, or when the supplied discount factors differ in
\* number from the points.
C5_OneErrorKind ==
    (ctor.pc = "done" /\ CtorMustFail) =>
        ctor.result.err = "ValueError" /\ ctor.result.curve = NoCurve

SchedReturned == sched.pc = "done" /\ sched.result.returned

PeriodCount == RoundHalfEven(sched.tenor_years * sched.payments_per_year)

\* C8: generate_schedule fails when payments_per_year <= 0 or when the period
\* count is zero; whenever it returns, the schedule holds exactly
\* round(tenor_years * payments_per_year) >= 1 periods, so no empty schedule
\* is returned for any tenor_years.
C8_NeverEmpty ==
    sched.pc = "done" =>
        /\ (sched.payments_per_year <= 0 \/ PeriodCount = 0) =>
                (sched.result.err = "ValueError" /\ ~sched.result.returned)
        /\ sched.result.returned =>
                (Len(sched.result.periods) = PeriodCount /\ Len(sched.result.periods) >= 1)

Contiguous(periods, start) ==
    \A k \in 1..Len(periods) :
        periods[k].start = (IF k = 1 THEN start ELSE periods[k - 1].end)

\* tenor_years is a whole number of months.
WholeMonths(tenor_years) == (tenor_years * 12) % Scale = 0

\* C9: in every returned schedule the periods are contiguous from the start
\* date and the last period ends exactly at start + tenor_years (for tenors
\* of whole months: the start date advanced by 12 * tenor_years months).
C9_CoversTenorExactly ==
    (SchedReturned /\ sched.result.periods # <<>> /\ WholeMonths(sched.tenor_years)) =>
        /\ Contiguous(sched.result.periods, sched.start)
        /\ Last(sched.result.periods).end
              = AddMonths(sched.start, (sched.tenor_years * 12) \div Scale)

AccrualSum(periods) == SumSeq([k \in 1..Len(periods) |-> periods[k].accrual_factor])

\* C10: in every returned schedule the period end dates are strictly
\* increasing and every period has start < end (5 years at 4 payments a year
\* give 20 periods); under ACT/365 the accrual factors sum to the ACT/365
\* year fraction from the schedule start to the last period end.
C10_IncreasingEnds ==
    (SchedReturned /\ sched.result.periods # <<>>) =>
        LET periods == sched.result.periods
        IN  /\ \A k \in 1..Len(periods) : DateLess(periods[k].start, periods[k].end)
            /\ \A k \in 1..Len(periods) - 1 : DateLess(periods[k].end, periods[k + 1].end)
            /\ (sched.tenor_years = Fx(5, 0) /\ sched.payments_per_year = 4)
                    => Len(periods) = 20
            /\ Upper(sched.day_count) = "ACT/365" =>
                    Abs(AccrualSum(periods) - Actual365(sched.start, Last(periods).end)) <= Tol

\* ------------------------------------------------------------------------
\* C7
\* ------------------------------------------------------------------------

Refs(o) == {o.tenors, o.rates, o.dfs} \ {0}

\* A session in which a transform returned a curve with other rates and a
\* key-rate run then priced on the curves.
C7_Witness ==
    /\ Len(frame.curves) = MaxCurves
    /\ frame.curves[MaxCurves].made.rates # frame.curves[1].made.rates
    /\ frame.curves[MaxCurves].made.rates # frame.curves[2].made.rates
    /\ frame.last.op = "calculate_key_rate_dv01"
    /\ frame.last.err = "none"

\* C7: after any sequence of bump_curve, apply_non_parallel_shift,
\* apply_key_rate_shift, SwapPricer.price, price_with_risk,
\* price_with_non_parallel_shift and calculate_key_rate_dv01, every curve of the
\* session still has the tenors, rates and discount-factor cache it was built
\* with, and no two curves share an array.
C7_InputsUntouched ==
    /\ \A k \in 1..Len(frame.curves) :
           Deref(frame.heap, frame.curves[k].obj) = frame.curves[k].made
    /\ \A k, l \in 1..Len(frame.curves) :
           k # l => Refs(frame.curves[k].obj) \cap Refs(frame.curves[l].obj) = {}
    /\ \A k \in 1..Len(frame.curves) :
           Refs(frame.curves[k].obj) \subseteq 1..Len(frame.heap)

\* ------------------------------------------------------------------------
\* Claims on the 30/360 day count
\* ------------------------------------------------------------------------

DaycountReturned == daycount.pc = "done" /\ daycount.result.returned

\* The day-of-month of the US convention: a start day of 31 counts as 30, and
\* an end day of 31 counts as 30 when the adjusted start day is 30.
UsStartDay(start) == Min(start.day, 30)

UsEndDay(start, end) == IF end.day = 31 /\ UsStartDay(start) = 30 THEN 30 ELSE end.day

MonthsApart(start, end) == (end.year - start.year) * 12 + (end.month - start.month)

\* C11: thirty_360(start, end) is (360*dYear + 30*dMonth + (d2 - d1))/360 with a
\* start day of 31 taken as 30 and an end day of 31 taken as 30 whenever the
\* adjusted start day is 30, so that two dates on the same day-of-month N
\* months apart give N/12.
C11_UsThirty360 ==
    (DaycountReturned /\ Upper(daycount.convention) = "30/360") =>
        /\ daycount.result.value =
               FxDiv((daycount.end.year - daycount.start.year) * 360
                     + (daycount.end.month - daycount.start.month) * 30
                     + (UsEndDay(daycount.start, daycount.end) - UsStartDay(daycount.start)),
                     360)
        /\ daycount.start.day = daycount.end.day =>
               daycount.result.value = FxDiv(MonthsApart(daycount.start, daycount.end), 12)

\* ------------------------------------------------------------------------
\* Claims on pricing and risk calls
\* ------------------------------------------------------------------------

PriceReturned == desk.last.op = "price" /\ desk.last.pricing.err = "none"

\* The row carries direction d: its cashflow is d times notional * rate *
\* accrual, its present value that cashflow times the discount factor.
HasDirection(row, d) ==
    /\ row.cashflow = FxMul(d * Scale, FxMul(FxMul(desk.swap.notional, row.coupon_rate),
                                             row.accrual_factor))
    /\ row.present_value = FxMul(row.cashflow, row.discount_factor)

LegHasDirection(rows, leg, d) ==
    \A i \in 1..Len(rows) : rows[i].leg = leg => HasDirection(rows[i], d)

\* C12: every row of the leg the holder pays carries -1 and every row of the
\* leg received +1: payer 'fixed' gives fixed -1 / floating +1, payer 'float'
\* gives fixed +1 / floating -1, and for any payer value the two legs carry
\* opposite directions.
C12_OppositeDirections ==
    PriceReturned =>
        /\ desk.swap.payer = "fixed" =>
               /\ LegHasDirection(desk.last.pricing.cashflows, "fixed", -1)
               /\ LegHasDirection(desk.last.pricing.cashflows, "floating", 1)
        /\ desk.swap.payer = "float" =>
               /\ LegHasDirection(desk.last.pricing.cashflows, "fixed", 1)
               /\ LegHasDirection(desk.last.pricing.cashflows, "floating", -1)
        /\ \E d \in {-1, 1} :
               /\ LegHasDirection(desk.last.pricing.cashflows, "fixed", d)
               /\ LegHasDirection(desk.last.pricing.cashflows, "floating", -d)

\* A payer outside the two documented values, both legs with cashflows that
\* are numbers other than zero.
C12_Witness ==
    /\ PriceReturned
    /\ desk.swap.payer \notin {"fixed", "float"}
    /\ \E i, j \in 1..Len(desk.last.pricing.cashflows) :
           /\ desk.last.pricing.cashflows[i].leg = "fixed"
           /\ desk.last.pricing.cashflows[j].leg = "floating"
           /\ \A k \in {i, j} : /\ IsNum(desk.last.pricing.cashflows[k].cashflow)
                                 /\ desk.last.pricing.cashflows[k].cashflow # 0

\* The present values, over the rows of the legs in legs, that are numbers,
\* added up.
RECURSIVE SumPresentValues(_, _)
SumPresentValues(rows, legs) ==
    IF rows = <<>> THEN 0
    ELSE (IF Head(rows).leg \in legs /\ IsNum(Head(rows).present_value)
          THEN Head(rows).present_value ELSE 0)
         + SumPresentValues(Tail(rows), legs)

\* C13: price returns npv = fixed_leg_pv + floating_leg_pv, each leg PV the sum
\* of present_value over that leg's rows, present_value = cashflow *
\* discount_factor in every row, and a table of exactly round(maturity *
\* fixed_freq) + round(maturity * float_freq) rows in non-decreasing
\* period_end order, so that npv is the sum of present_value over all rows.
C13_NpvIsSumOfRows ==
    PriceReturned =>
        /\ desk.last.pricing.npv =
               desk.last.pricing.fixed_leg_pv + desk.last.pricing.floating_leg_pv
        /\ desk.last.pricing.fixed_leg_pv =
               SumPresentValues(desk.last.pricing.cashflows, {"fixed"})
        /\ desk.last.pricing.floating_leg_pv =
               SumPresentValues(desk.last.pricing.cashflows, {"floating"})
        /\ \A i \in 1..Len(desk.last.pricing.cashflows) :
               desk.last.pricing.cashflows[i].present_value =
                   FxMul(desk.last.pricing.cashflows[i].cashflow,
                         desk.last.pricing.cashflows[i].discount_factor)
        /\ Len(desk.last.pricing.cashflows) =
               RoundHalfEven(desk.swap.maturity_years * desk.swap.fixed_leg_frequency)
               + RoundHalfEven(desk.swap.maturity_years * desk.swap.floating_leg_frequency)
        /\ \A i \in 1..(Len(desk.last.pricing.cashflows) - 1) :
               ~DateLess(desk.last.pricing.cashflows[i + 1].period_end,
                         desk.last.pricing.cashflows[i].period_end)
        /\ desk.last.pricing.npv =
               SumPresentValues(desk.last.pricing.cashflows, {"fixed", "floating"})

\* A priced one-year swap: six rows, a floating row sorted ahead of a fixed
\* row, every present value a number.
C13_Witness ==
    /\ PriceReturned
    /\ Len(desk.last.pricing.cashflows) = 6
    /\ \E i, j \in 1..Len(desk.last.pricing.cashflows) :
           /\ i < j
           /\ desk.last.pricing.cashflows[i].leg = "floating"
           /\ desk.last.pricing.cashflows[j].leg = "fixed"
    /\ \A i \in 1..Len(desk.last.pricing.cashflows) :
           IsNum(desk.last.pricing.cashflows[i].present_value)
    /\ desk.last.pricing.npv # 0

RiskReturned == desk.last.op = "price_with_risk" /\ desk.last.result.err = "none"

\* The NPV of the desk's swap on the desk's curves as build_curves made them.
BaseNpv == Price(desk.swap, desk.discount_curve, desk.forward_curve).npv

\* The NPV with both of those curves bumped in parallel by bump_bp.
BumpedNpv(bump_bp) ==
    Price(desk.swap, BumpCurve(desk.discount_curve, bump_bp).curve,
          BumpCurve(desk.forward_curve, bump_bp).curve).npv

\* C14: price_with_risk returns the base NPV as npv, and pv01 = dv01 = (NPV with
\* both the discount and the forward curve bumped in parallel by bump_bp)
\* minus the base NPV.
C14_ParallelBumpOfBothCurves ==
    RiskReturned =>
        /\ desk.last.result.npv = BaseNpv
        /\ desk.last.result.pv01 = BumpedNpv(desk.last.bump_bp) - BaseNpv
        /\ desk.last.result.dv01 = desk.last.result.pv01

\* A returned price_with_risk whose bump of 25bp down moved the NPV, the
\* forward curve's bump included.
C14_Witness ==
    /\ RiskReturned
    /\ desk.last.bump_bp = Fx(-25, 0)
    /\ desk.last.result.pv01 # 0
    /\ desk.last.result.pv01 #
           Price(desk.swap, BumpCurve(desk.discount_curve, desk.last.bump_bp).curve,
                 desk.forward_curve).npv - BaseNpv

ShiftReturned ==
    desk.last.op = "price_with_non_parallel_shift" /\ desk.last.result.err = "none"

\* The desk's curves under the shifts of the last call.
ShiftedDiscount == ApplyNonParallelShift(desk.discount_curve, desk.last.discount_shifts).curve

ShiftedForward == ApplyNonParallelShift(desk.forward_curve, desk.last.forward_shifts).curve

ShiftedNpv == Price(desk.swap, ShiftedDiscount, ShiftedForward).npv

\* The NPV on the shifted curves bumped a further basis point in parallel.
ShiftedBumpedNpv ==
    Price(desk.swap, BumpCurve(ShiftedDiscount, Fx(1, 0)).curve,
          BumpCurve(ShiftedForward, Fx(1, 0)).curve).npv

\* C15: price_with_non_parallel_shift returns npv = NPV on the shifted curves,
\* npv_change = shifted NPV - base NPV, and pv01 = dv01 = (NPV on the shifted
\* curves bumped a further +1bp in parallel) - shifted NPV.
C15_LocalPv01AtShiftedCurves ==
    ShiftReturned =>
        /\ desk.last.result.npv = ShiftedNpv
        /\ desk.last.result.npv_change = ShiftedNpv - BaseNpv
        /\ desk.last.result.pv01 = ShiftedBumpedNpv - ShiftedNpv
        /\ desk.last.result.dv01 = desk.last.result.pv01

\* A returned call whose shifts moved the NPV and whose PV01 is neither the
\* one measured against the base NPV nor the one of the base curves.
C15_Witness ==
    /\ ShiftReturned
    /\ desk.last.result.npv_change # 0
    /\ desk.last.result.pv01 # 0
    /\ desk.last.result.pv01 # ShiftedBumpedNpv - BaseNpv
    /\ desk.last.result.pv01 # BumpedNpv(Fx(1, 0)) - BaseNpv

KeyRateReturned ==
    desk.last.op = "calculate_key_rate_dv01" /\ desk.last.result.err = "none"

\* The NPV with both of the desk's curves tent-shifted at key_tenor alone.
KeyShiftedNpv(key_tenor, bump_bp) ==
    Price(desk.swap, ApplyKeyRateShift(desk.discount_curve, key_tenor, bump_bp).curve,
          ApplyKeyRateShift(desk.forward_curve, key_tenor, bump_bp).curve).npv

\* C16: calculate_key_rate_dv01 records, for each key tenor k of the list and
\* for no other, NPV(both base curves tent-shifted at k) - base NPV, whatever
\* the other tenors of the list and whatever their order.
C16_BucketsIndependent ==
    KeyRateReturned =>
        /\ {desk.last.result.key_rate_dv01[i].tenor :
                i \in 1..Len(desk.last.result.key_rate_dv01)}
               = {desk.last.key_tenors[i] : i \in 1..Len(desk.last.key_tenors)}
        /\ \A i, j \in 1..Len(desk.last.result.key_rate_dv01) :
               desk.last.result.key_rate_dv01[i].tenor =
                   desk.last.result.key_rate_dv01[j].tenor => i = j
        /\ \A i \in 1..Len(desk.last.result.key_rate_dv01) :
               desk.last.result.key_rate_dv01[i].value =
                   KeyShiftedNpv(desk.last.result.key_rate_dv01[i].tenor, desk.last.bump_bp)
                   - BaseNpv

\* A returned call on two key tenors, the one-year tenor first, whose two
\* buckets are different numbers other than zero.
C16_Witness ==
    /\ KeyRateReturned
    /\ desk.last.key_tenors = <<Fx(1, 0), Fx(0, 500)>>
    /\ Len(desk.last.result.key_rate_dv01) = 2
    /\ desk.last.result.key_rate_dv01[1].value # 0
    /\ desk.last.result.key_rate_dv01[2].value # 0
    /\ desk.last.result.key_rate_dv01[1].value # desk.last.result.key_rate_dv01[2].value

\* C18: a price_with_risk call with the swap, curves and bump_bp of an earlier
\* call returns what the earlier call returned (its npv, pv01 and dv01, or
\* its error), whatever pricing and risk calls were made before it.
C18_SameCallSameResult ==
    (/\ desk.last.op = "price_with_risk"
     /\ desk.first_risk.op = "price_with_risk"
     /\ desk.last.bump_bp = desk.first_risk.bump_bp) =>
        /\ desk.last.result.err = desk.first_risk.result.err
        /\ desk.last.result.npv = desk.first_risk.result.npv
        /\ desk.last.result.pv01 = desk.first_risk.result.pv01
        /\ desk.last.result.dv01 = desk.first_risk.result.dv01

\* A second price_with_risk call with the bump of the first, both returned.
C18_Witness ==
    /\ RiskReturned
    /\ desk.last.repeated
    /\ desk.last.bump_bp = desk.first_risk.bump_bp
    /\ desk.first_risk.result.err = "none"
    /\ desk.last.result.pv01 # 0

\* ------------------------------------------------------------------------
\* Claims on the key-rate decomposition
\* ------------------------------------------------------------------------

RECURSIVE SumBuckets(_)
SumBuckets(key_rate_dv01) ==
    IF key_rate_dv01 = <<>> THEN 0
    ELSE Head(key_rate_dv01).value + SumBuckets(Tail(key_rate_dv01))

\* The desk priced its swap with price_with_risk at one basis point and then
\* asked for the key-rate DV01 on the dashboard's tenors.
BucketsReturned ==
    /\ KeyRateReturned
    /\ desk.last.key_tenors = DefaultTenors
    /\ desk.first_risk.op = "price_with_risk"
    /\ desk.first_risk.result.err = "none"
    /\ desk.first_risk.bump_bp = desk.last.bump_bp

\* C17: for a plain vanilla five-year swap the key-rate DV01 buckets on the
\* dashboard's tenors, with the default tent widths, add up to within 20% of
\* the parallel DV01 that price_with_risk returns.
C17_BucketsSumNearParallel ==
    BucketsReturned =>
        5 * Abs(SumBuckets(desk.last.result.key_rate_dv01) - desk.first_risk.result.dv01)
            <= Abs(desk.first_risk.result.dv01)

\* ------------------------------------------------------------------------
\* Claims on discount_factor and bump_curve
\* ------------------------------------------------------------------------

\* discount_factor as described: with a cache, log-linear in the stored
\* discount factors from the first node to the last, the boundary rate
\* extended before the first node and beyond the last.
LogLinearDiscountFactor(c, tenor) ==
    IF tenor <= 0 THEN Scale
    ELSE IF ~c.hasCache THEN FxExp(FxNeg(FxMul(ZeroRate(c, tenor), tenor)))
    ELSE IF tenor < c.tenors[1] THEN FxExp(FxNeg(FxMul(c.rates[1], tenor)))
    ELSE IF tenor > Last(c.tenors)
    THEN FxMul(Last(c.dfs), FxExp(FxNeg(FxMul(Last(c.rates), tenor - Last(c.tenors)))))
    ELSE FxExp(NpInterp(tenor, c.tenors, [i \in 1..Len(c.dfs) |-> FxLn(c.dfs[i])]))

\* The two numbers agree up to the rounding slack, or neither is a number.
Near(a, b) == IF IsNum(a) /\ IsNum(b) THEN Abs(a - b) <= Tol ELSE a = b

\* C19: discount_factor(t) is 1 for t <= 0; with a cache it is log-linear in
\* the stored node discount factors for t inside the node range, and outside
\* it extends the boundary node's zero rate (DF_last * exp(-r_last * (t -
\* t_last)) beyond the last node, exp(-r_first * t) before the first);
\* without a cache it is exp(-zero_rate(t) * t).
\* Checked on the curves whose node tenors are distinct.
C19_LogLinearInsideNodes ==
    StrictlyIncreasing(query.curve.tenors)
        => \A a \in query.asked : Near(a.value, LogLinearDiscountFactor(query.curve, a.tenor))

BumpReturned == bumped.pc = "done"

\* The discount factor the input curve holds for its i-th node: the cache
\* entry, or exp(-rate * tenor) of the node when the curve has no cache.
StoredDf(c, i) ==
    IF c.hasCache THEN c.dfs[i] ELSE FxExp(FxNeg(FxMul(c.rates[i], c.tenors[i])))

\* C20: bump_curve returns a curve on the same node tenors in which each
\* node's discount factor is the input curve's stored discount factor at that
\* node times exp(-(bump_bp / 10000) * t), and each node's zero rate is
\* -ln(newDF) / t.  Checked on the curves whose node tenors are distinct.
C20_BumpedFromStored ==
    (BumpReturned /\ StrictlyIncreasing(bumped.curve.tenors)) =>
        /\ bumped.result.tenors = bumped.curve.tenors
        /\ bumped.result.hasCache
        /\ \A i \in 1..Len(bumped.curve.tenors) :
              /\ Near(bumped.result.dfs[i], FxMul(StoredDf(bumped.curve, i), FxExp(FxNeg(FxMul(DivInt(bumped.bump_bp, 10000), bumped.curve.tenors[i])))))
              /\ bumped.result.rates[i] = FxDiv(FxNeg(FxLn(bumped.result.dfs[i])), bumped.curve.tenors[i])

\* ------------------------------------------------------------------------
\* Claims on the bootstrap's nodes
\* ------------------------------------------------------------------------

\* The par rate the bootstrap reads for grid node i.
NodeParRate(i) == NpInterp(boot.tenors[i], boot.par_tenors, boot.par_rates)

\* sum over j <= i of accrual_j * DF_j on the returned curve.
Annuity(i) == SumSeq([j \in 1..i |-> FxMul(boot.accruals[j], boot.result.curve.dfs[j])])

\* C21: at every grid node i of a bootstrapped curve the par-swap identity
\* holds with the node's interpolated par rate r_i,
\* r_i * sum_{j<=i} accrual_j * DF_j + DF_i = 1, and the node's zero rate is
\* -ln(DF_i) / t_i.
C21_ParSwapAtEveryNode ==
    BootReturned =>
        \A i \in 1..Len(boot.result.curve.tenors) :
            /\ Near(FxAdd(FxMul(NodeParRate(i), Annuity(i)), boot.result.curve.dfs[i]), Scale)
            /\ boot.result.curve.rates[i]
                 = FxDiv(FxNeg(FxLn(boot.result.curve.dfs[i])), boot.result.curve.tenors[i])

\* A returned quarterly bootstrap of two years whose quotes differ, so that
\* the par rate changes along the grid.
C21_Witness ==
    /\ BootReturned /\ ~FlatQuotes
    /\ boot.payment_frequency = 4
    /\ Len(boot.result.curve.tenors) = 8
    /\ NodeParRate(1) # NodeParRate(8)
    /\ boot.result.curve.dfs[8] > 0

\* The entries written before the latest iteration of the loop started.
WrittenBefore == {boot.writes[k] : k \in 1..(Len(boot.writes) - 1)}

\* C22: the bootstrap solves its nodes strictly left to right: the
\* computation of DF_i starts only after DF_j has been written for every
\* j < i, it reads exactly those entries (never an unwritten or later one),
\* and each DF_i is written exactly once.
C22_LeftToRight ==
    /\ boot.writes = [k \in 1..boot.idx |-> k]
    /\ Len(boot.discount_factors) = boot.idx
    /\ boot.idx > 0 =>
          /\ boot.reads = WrittenBefore
          /\ boot.reads = 1..(boot.writes[boot.idx] - 1)
    /\ BootReturned => boot.writes = [k \in 1..Len(boot.result.curve.tenors) |-> k]

\* The loop has written three nodes and its latest iteration read the two
\* before it.
C22_Witness ==
    /\ boot.pc = "loop"
    /\ boot.writes = <<1, 2, 3>>
    /\ boot.reads = {1, 2}

\* The largest and smallest tenor among the rows of the quote table.
MaxQuoteTenor == CHOOSE t \in {boot.df[k].tenor : k \in 1..Len(boot.df)} : \A k \in 1..Len(boot.df) : boot.df[k].tenor <= t

MinQuoteTenor == CHOOSE t \in {boot.df[k].tenor : k \in 1..Len(boot.df)} : \A k \in 1..Len(boot.df) : t <= boot.df[k].tenor

\* The rates quoted at tenor t.
RatesQuotedAt(t) == {boot.df[k].rate : k \in {j \in 1..Len(boot.df) : boot.df[j].tenor = t}}

\* N = round(max_quote_tenor * f)
GridSize == RoundHalfEven(MaxQuoteTenor * boot.payment_frequency)

Reversed(s) == [k \in 1..Len(s) |-> s[Len(s) + 1 - k]]

\* C23: the bootstrap builds exactly N = round(max_quote_tenor * f) nodes at
\* the tenors i / f (i = 1..N), whatever the row order of the quote table,
\* and fails without a curve when f <= 0 or N <= 0; the par rate of a node
\* outside the quote tenor range is the nearest quote's rate.
C23_UniformGrid ==
    boot.pc = "done" =>
        IF boot.payment_frequency <= 0 \/ GridSize <= 0
        THEN boot.result.err # "none" /\ boot.result.curve = NoCurve
        ELSE /\ boot.result.err = "none"
             /\ Len(boot.result.curve.tenors) = GridSize
             /\ \A i \in 1..GridSize :
                   /\ boot.result.curve.tenors[i] = FxDiv(i * Scale, boot.payment_frequency * Scale)
                   /\ boot.tenors[i] < MinQuoteTenor => NodeParRate(i) \in RatesQuotedAt(MinQuoteTenor)
                   /\ boot.tenors[i] > MaxQuoteTenor => NodeParRate(i) \in RatesQuotedAt(MaxQuoteTenor)
             /\ FromParSwapDataframe(Reversed(boot.df), boot.payment_frequency).curve.tenors
                  = boot.result.curve.tenors

\* A returned bootstrap of a table whose rows are in decreasing tenor order
\* and whose grid ends beyond the last quote (1.5 years at one payment a
\* year gives the nodes 1 and 2).
C23_Witness ==
    /\ BootReturned
    /\ Len(boot.df) = 2 /\ boot.df[1].tenor > boot.df[2].tenor
    /\ boot.df[1].rate # boot.df[2].rate
    /\ Len(boot.result.curve.tenors) = 2
    /\ Last(boot.tenors) > MaxQuoteTenor

\* ------------------------------------------------------------------------
\* Claim on the period ends of a schedule
\* ------------------------------------------------------------------------

\* round(12 / frequency)
StepMonths == RoundHalfEven(FxDiv(12, sched.payments_per_year))

\* C24: in every returned schedule the end of the k-th period is the
\* schedule start advanced by k * round(12 / frequency) calendar months:
\* each end is measured from the schedule start, not rolled from the
\* (possibly month-end-clamped) previous end.
C24_EndsFromScheduleStart ==
    SchedReturned =>
        \A k \in 1..Len(sched.result.periods) :
            sched.result.periods[k].end = AddMonths(sched.start, k * StepMonths)

\* ------------------------------------------------------------------------
\* Claims on the curve shifts
\* ------------------------------------------------------------------------

NonParallelReturned ==
    bumped.pc = "done" /\ bumped.op = "apply_non_parallel_shift" /\ bumped.err = "none"

\* The shifts of the map in decimal, in the order of its sorted tenors.
MapTenors == SortedKeys(DOMAIN bumped.tenor_shifts)

MapShifts == [k \in 1..Len(MapTenors) |-> DivInt(bumped.tenor_shifts[MapTenors[k]], 10000)]

\* The shift a node has received.
AppliedShift(i) == FxSub(bumped.result.rates[i], bumped.curve.rates[i])

\* C25: apply_non_parallel_shift adds to each node's zero rate the shift
\* (bp / 10000) interpolated linearly over the map's own tenors, with the
\* first / last entry's shift below / above the map's range; the shift of any
\* node lies between the least and the greatest shift of the map, and the
\* new discount factor of each node is exp(-newRate * t).
C25_InterpolatedShift ==
    NonParallelReturned =>
        /\ bumped.result.tenors = bumped.curve.tenors
        /\ bumped.result.hasCache
        /\ \A i \in 1..Len(bumped.curve.tenors) :
              /\ Near(AppliedShift(i), NpInterp(bumped.curve.tenors[i], MapTenors, MapShifts))
              /\ bumped.curve.tenors[i] < MapTenors[1] => AppliedShift(i) = MapShifts[1]
              /\ bumped.curve.tenors[i] > Last(MapTenors) => AppliedShift(i) = Last(MapShifts)
              /\ \E k \in 1..Len(MapShifts) : MapShifts[k] <= AppliedShift(i)
              /\ \E k \in 1..Len(MapShifts) : AppliedShift(i) <= MapShifts[k]
              /\ bumped.result.dfs[i]
                   = FxExp(FxNeg(FxMul(bumped.result.rates[i], bumped.curve.tenors[i])))

\* A shifted three-node curve with one node below the map's tenors, one
\* between two of them and one above.
C25_Witness ==
    /\ NonParallelReturned
    /\ bumped.tenor_shifts = BetweenShifts
    /\ bumped.curve.tenors = <<Fx(1, 0), Fx(2, 0), Fx(3, 0)>>
    /\ AppliedShift(2) = Fx(0, 0) - 500

KeyRateShiftReturned ==
    bumped.pc = "done" /\ bumped.op = "apply_key_rate_shift" /\ bumped.err = "none"

\* The width of the tent: the one supplied, or 1.0 for key_tenor < 1, 2.0 for
\* 1 <= key_tenor <= 5 and 3.0 for key_tenor > 5.
TentWidth ==
    IF bumped.width_given THEN bumped.width
    ELSE IF bumped.key_tenor < Fx(1, 0) THEN Fx(1, 0)
    ELSE IF bumped.key_tenor <= Fx(5, 0) THEN Fx(2, 0)
    ELSE Fx(3, 0)

TentShift(t) ==
    IF Abs(t - bumped.key_tenor) <= TentWidth
    THEN FxMul(DivInt(bumped.shift_bp, 10000), FxSub(Scale, FxDiv(Abs(t - bumped.key_tenor), TentWidth)))
    ELSE 0

Between(x, a, b) == (a <= x /\ x <= b) \/ (b <= x /\ x <= a)

C27_CacheFollowsPoints ==
    (CtorReturned /\ ctor.hasCache /\ DistinctTenors(ctor.points)) =>
        \A i \in 1..Len(ctor.result.curve.tenors) :
            \E k \in 1..Len(ctor.points) :
                /\ ctor.points[k].tenor = ctor.result.curve.tenors[i]
                /\ ctor.result.curve.dfs[i] = ctor.discount_factors[k]

\* ------------------------------------------------------------------------
\* Claim on the cache after a chain of transforms
\* ------------------------------------------------------------------------

ChainReturned == bumped.pc = "chain"

\* C28: after any sequence of bootstrap, bump_curve, apply_non_parallel_shift
\* and apply_key_rate_shift the curve's cache is consistent with its rates:
\* at every node the stored DF_i is exp(-rate_i * tenor_i), and
\* discount_factor(tenor_i) returns that stored DF_i (at the first and the
\* last node too, where the extrapolation branches are taken).  Compared up
\* to the rounding slack.
C28_CacheConsistent ==
    ChainReturned =>
        /\ bumped.result.hasCache
        /\ \A i \in 1..Len(bumped.result.tenors) :
              /\ Near(bumped.result.dfs[i], FxExp(FxNeg(FxMul(bumped.result.rates[i], bumped.result.tenors[i]))))
              /\ Near(DiscountFactor(bumped.result, bumped.result.tenors[i]), bumped.result.dfs[i])

\* ------------------------------------------------------------------------
\* Claim on a bumped curve away from its nodes
\* ------------------------------------------------------------------------

\* Tenors before, on, between and beyond the nodes of the bumped curves.
ProbeTenors == {Fx(0, 500), Fx(1, 0), Fx(1, 500), Fx(2, 0), Fx(2, 250), Fx(3, 0), Fx(4, 0)}

\* The input curve is cache-consistent: it has a cache, the cache holds
\* exp(-rate * tenor) of each node, and discount_factor at each node's tenor
\* returns the stored value of that node.
CacheConsistentInput ==
    /\ bumped.curve.hasCache
    /\ CacheFromRates(bumped.curve)
    /\ \A i \in 1..Len(bumped.curve.tenors) :
          Near(DiscountFactor(bumped.curve, bumped.curve.tenors[i]), bumped.curve.dfs[i])

BumpDecimal == DivInt(bumped.bump_bp, 10000)

\* C29: a parallel bump is exact at every tenor, not only at the nodes: for
\* a cache-consistent curve c and a bump b (decimal),
\* bump_curve(c, b).discount_factor(t) = c.discount_factor(t) * exp(-b * t)
\* for every t > 0, so forward_rate(s, e) of the bumped curve is that of c
\* plus b for every 0 <= s < e.  Compared up to the rounding slack.
C29_BumpExactEverywhere ==
    (BumpReturned /\ CacheConsistentInput) =>
        /\ \A t \in ProbeTenors :
              Near(DiscountFactor(bumped.result, t),
                   FxMul(DiscountFactor(bumped.curve, t), FxExp(FxNeg(FxMul(BumpDecimal, t)))))
        /\ \A s \in ProbeTenors \cup {0}, e \in ProbeTenors :
              s < e => Near(ForwardRate(bumped.result, s, e).value,
                            FxAdd(ForwardRate(bumped.curve, s, e).value, BumpDecimal))

\* A 25bp bump of a cached three-node curve whose rates differ from node to
\* node: the probes fall before, between and beyond its nodes.
C29_Witness ==
    /\ BumpReturned /\ CacheConsistentInput
    /\ bumped.bump_bp = Fx(-25, 0)
    /\ bumped.curve.tenors = <<Fx(1, 0), Fx(2, 0), Fx(3, 0)>>
    /\ bumped.curve.rates = <<Fx(0, 10), Fx(0, 100), 0>>
    /\ DiscountFactor(bumped.result, Fx(2, 250)) > DiscountFactor(bumped.curve, Fx(2, 250)) + Tol

\* ------------------------------------------------------------------------
\* Claim on the two sides of one swap
\* ------------------------------------------------------------------------

\* The desk's swap seen from the other side, and its price on the same curves.
MirrorSwap == [desk.swap EXCEPT !.payer = IF @ = "fixed" THEN "float" ELSE "fixed"]

MirrorPricing == Price(MirrorSwap, desk.discount_curve, desk.forward_curve)

\* x and y are each other's negative (both not a number counts as such).
Negated(x, y) == IF IsNum(x) /\ IsNum(y) THEN x = -y ELSE x = y

MirrorRows(a, b) ==
    /\ a.leg = b.leg /\ a.period_start = b.period_start /\ a.period_end = b.period_end
    /\ Negated(a.cashflow, b.cashflow)
    /\ Negated(a.present_value, b.present_value)
    /\ a.accrual_factor = b.accrual_factor
    /\ a.forward_rate = b.forward_rate
    /\ a.discount_factor = b.discount_factor

\* C30: two SwapDefinitions that differ only in the payer ('fixed' against
\* 'float'), priced on the same curves, give exactly negated results: every
\* row's cashflow and present_value, both leg PVs and the NPV of one are the
\* negatives of the other's, while accrual factors, forward rates and
\* discount factors are equal.
C30_MirrorNegates ==
    (PriceReturned /\ desk.swap.payer \in {"fixed", "float"}) =>
        /\ MirrorPricing.err = "none"
        /\ Len(MirrorPricing.cashflows) = Len(desk.last.pricing.cashflows)
        /\ \A i \in 1..Len(desk.last.pricing.cashflows) :
               MirrorRows(desk.last.pricing.cashflows[i], MirrorPricing.cashflows[i])
        /\ Negated(desk.last.pricing.fixed_leg_pv, MirrorPricing.fixed_leg_pv)
        /\ Negated(desk.last.pricing.floating_leg_pv, MirrorPricing.floating_leg_pv)
        /\ Negated(desk.last.pricing.npv, MirrorPricing.npv)

\* A priced one-year receiver swap whose legs and NPV are numbers other than
\* zero, so that its payer side has the opposite signs.
C30_Witness ==
    /\ PriceReturned
    /\ desk.swap.payer = "float"
    /\ Len(desk.last.pricing.cashflows) = 6
    /\ desk.last.pricing.fixed_leg_pv > 0
    /\ desk.last.pricing.floating_leg_pv < 0
    /\ desk.last.pricing.npv # 0
    /\ MirrorPricing.npv = -desk.last.pricing.npv

====
